---- MODULE Spec2Model ----
(***************************************************************************)
(* A model of the DNS-specific qp-trie of NSD (src/qp-trie.c, the version  *)
(* with the page allocator and the compacting collector, and the node      *)
(* encoding of src/qp-bits.h).                                             *)
(*                                                                         *)
(* The 64-bit word of a node is kept as its parts (tag bit, bitmap as the  *)
(* set of set bit numbers 1..47, key offset, value pointer); the 32-bit    *)
(* word is w32.  A node pointer is ROOT (the address of qp->root) or a     *)
(* twig reference page * QP_PAGE_SIZE + twig.  The struct qp is the record *)
(* variable qp; every operation of the C code is an operator from a struct *)
(* to the struct it leaves behind.                                         *)
(***************************************************************************)
EXTENDS Integers, Sequences, FiniteSets, TLC

\* ------------------------------------------------------------------------
\* Sizes.  The page size and the collection threshold are scaled down so
\* that pages fill up and collections run within a few operations.
\* ------------------------------------------------------------------------

\* number of nodes in a page (1U << 12 in the source)
QP_PAGE_SIZE == 8

\* the page needs recycling if its usage is less than this threshold
\* (a sixteenth below the page size in the source; half of the page here,
\* so that pages above and pages below the threshold are both collected)
QP_MIN_USAGE == QP_PAGE_SIZE - QP_PAGE_SIZE \div 2

\* compactify proactively when we pass this threshold (1U << 20 in the source)
QP_MAX_GARBAGE == 5

\* bit positions inside the 64-bit word
SHIFT_BRANCH == 0
SHIFT_NOBYTE == 1
SHIFT_BITMAP == 2
SHIFT_OFFSET == 48

\* the null pointer, also the value of a never written 64-bit word
NULL == 0

\* what a read of a key element that dname_to_key() never wrote yields
KEY_UNINIT == 255

\* ------------------------------------------------------------------------
\* Domain names: a name is the sequence of its non-root labels in wire
\* order (leftmost label first), a label is a sequence of bytes.
\* ------------------------------------------------------------------------

\* lookup table mapping bytes in DNS names to bit positions
byte_to_bits ==
  << 514, 770, 1026, 1282, 1538, 1794, 2050, 2306,
     2562, 2818, 3074, 3330, 3586, 3842, 4098, 4354,
     4610, 4866, 5122, 5378, 5634, 5890, 6146, 6402,
     6658, 6914, 7170, 7426, 7682, 7938, 8194, 8450,
     8706, 8962, 9218, 9474, 9730, 9986, 10242, 10498,
     10754, 11010, 11266, 11522, 11778, 3, 4, 5,
     6, 7, 8, 9, 10, 11, 12, 13,
     14, 15, 528, 784, 1040, 1296, 1552, 1808,
     2064, 19, 20, 21, 22, 23, 24, 25,
     26, 27, 28, 29, 30, 31, 32, 33,
     34, 35, 36, 37, 38, 39, 40, 41,
     42, 43, 44, 2320, 2576, 2832, 3088, 17,
     18, 19, 20, 21, 22, 23, 24, 25,
     26, 27, 28, 29, 30, 31, 32, 33,
     34, 35, 36, 37, 38, 39, 40, 41,
     42, 43, 44, 557, 813, 1069, 1325, 1581,
     1837, 2093, 2349, 2605, 2861, 3117, 3373, 3629,
     3885, 4141, 4397, 4653, 4909, 5165, 5421, 5677,
     5933, 6189, 6445, 6701, 6957, 7213, 7469, 7725,
     7981, 8237, 8493, 8749, 9005, 9261, 9517, 9773,
     10029, 10285, 10541, 10797, 11053, 11309, 11565, 11821,
     12077, 558, 814, 1070, 1326, 1582, 1838, 2094,
     2350, 2606, 2862, 3118, 3374, 3630, 3886, 4142,
     4398, 4654, 4910, 5166, 5422, 5678, 5934, 6190,
     6446, 6702, 6958, 7214, 7470, 7726, 7982, 8238,
     8494, 8750, 9006, 9262, 9518, 9774, 10030, 10286,
     10542, 10798, 11054, 11310, 11566, 11822, 12078, 559,
     815, 1071, 1327, 1583, 1839, 2095, 2351, 2607,
     2863, 3119, 3375, 3631, 3887, 4143, 4399, 4655,
     4911, 5167, 5423, 5679, 5935, 6191, 6447, 6703,
     6959, 7215, 7471, 7727, 7983, 8239, 8495, 8751,
     9007, 9263, 9519, 9775, 10031, 10287, 10543, 10799 >>


\* label `lnum` of a name, counted from the root: label 0 is the root label,
\* label 1 the top-level label, and so on down to the leftmost label
dname_label(dname, lnum) == dname[Len(dname) - lnum + 1]

\* number of labels of a name, the root label included
label_count(dname) == Len(dname) + 1

\* names are equal when they are the same sequence of labels
dname_equal(left, right) == left = right

RECURSIVE memcmp(_, _, _)
\* compare the first `size` bytes of two byte strings
memcmp(left, right, size) ==
  IF size = 0 THEN 0
  ELSE IF Head(left) # Head(right) THEN Head(left) - Head(right)
  ELSE memcmp(Tail(left), Tail(right), size - 1)

\* compare two labels: bytewise, a prefix sorts first
label_compare(left, right) ==
  LET size == IF Len(left) < Len(right) THEN Len(left) ELSE Len(right)
      result == memcmp(left, right, size)
  IN  IF result # 0 THEN result ELSE Len(left) - Len(right)

RECURSIVE dname_compare_from(_, _, _)
dname_compare_from(left, right, i) ==
  LET lc == IF label_count(left) < label_count(right)
            THEN label_count(left) ELSE label_count(right)
  IN  IF i >= lc THEN label_count(left) - label_count(right)
      ELSE LET result == label_compare(dname_label(left, i), dname_label(right, i))
           IN  IF result # 0 THEN result
               ELSE dname_compare_from(left, right, i + 1)

\* canonical DNS order: labels are compared from the root side, the name
\* with the fewest labels is first
dname_compare(left, right) == dname_compare_from(left, right, 1)

\* ------------------------------------------------------------------------
\* Keys (dname_to_key).  A key is the sequence of the shifts written,
\* the terminating NOBYTE included, so the returned length is Len(key) - 1
\* and the C element key[off] is key[off + 1].
\* ------------------------------------------------------------------------

RECURSIVE label_to_key_both(_, _)
RECURSIVE label_to_key(_, _)
\* the inner loop without the second shift of an escaped byte
label_to_key_noescape(label, c) ==
  IF c > Len(label) THEN << >>
  ELSE << byte_to_bits[label[c] + 1] % 256 >> \o label_to_key(label, c + 1)

\* the inner loop that emits the high byte of an entry even when it is 0
label_to_key_both(label, c) ==
  IF c > Len(label) THEN << >>
  ELSE LET bits == byte_to_bits[label[c] + 1]
       IN  << bits % 256, bits \div 256 >> \o label_to_key_both(label, c + 1)

\* the inner loop that gives an upper case letter a second shift
label_to_key_upper(label, c) ==
  IF c > Len(label) THEN << >>
  ELSE LET bits == byte_to_bits[label[c] + 1]
       IN  (IF bits \div 256 # 0 THEN << bits % 256, bits \div 256 >>
            ELSE IF label[c] \in 65 .. 90 THEN << bits % 256, bits % 256 >>
            ELSE << bits % 256 >>)
           \o label_to_key(label, c + 1)

\* the inner loop of dname_to_key: the shifts of the bytes of a label
\* from byte c (counted from 1) on
label_to_key(label, c) ==
  IF c > Len(label) THEN << >>
  ELSE LET bits == byte_to_bits[label[c] + 1]
       IN  (IF bits \div 256 # 0 THEN << bits % 256, bits \div 256 >>
                                ELSE << bits % 256 >>)
           \o label_to_key(label, c + 1)

RECURSIVE labels_to_key(_, _)
\* the outer loop of dname_to_key, from label lnum on
labels_to_key(dname, lnum) ==
  IF lnum >= label_count(dname) THEN << >>
  ELSE label_to_key(dname_label(dname, lnum), 1) \o << SHIFT_NOBYTE >>
       \o labels_to_key(dname, lnum + 1)

\* the conversion without the second NOBYTE of the terminator
dname_to_key_single(dname) ==
  IF Len(dname) = 0 THEN << SHIFT_NOBYTE >> ELSE labels_to_key(dname, 1)

\* convert a domain name into a trie lookup key
dname_to_key(dname) == labels_to_key(dname, 1) \o << SHIFT_NOBYTE >>

\* the length dname_to_key returns
keylen(key) == Len(key) - 1

\* the C expression key[off]
keyat(key, off) == IF off + 1 <= Len(key) THEN key[off + 1] ELSE KEY_UNINIT

\* ------------------------------------------------------------------------
\* Nodes (qp-bits.h)
\* ------------------------------------------------------------------------

\* a node whose three words are zero: the root of an empty trie
ZeroNode == [isb |-> FALSE, bmp |-> {}, off |-> 0, val |-> NULL, w32 |-> 0]

\* a node of a page that was allocated and never written
JunkNode == [isb |-> FALSE, bmp |-> {}, off |-> 0, val |-> -1, w32 |-> 0]

\* a base[] slot that holds no page (a null pointer)
NULLPAGE == << >>

\* a page as xalloc() returns it
FreshPage == [i \in 1..QP_PAGE_SIZE |-> JunkNode]

\* the address of qp->root, as opposed to a twig reference
ROOT == -1

refpage(ref) == ref \div QP_PAGE_SIZE

reftwig(ref) == ref % QP_PAGE_SIZE

isbranch(n) == n.isb

\* the 64-bit word of a node: tag, bitmap, offset / value pointer
node64(n) == [isb |-> n.isb, bmp |-> n.bmp, off |-> n.off, val |-> n.val]

node32(n) == n.w32

newnode(word64, word32) ==
  [isb |-> word64.isb, bmp |-> word64.bmp, off |-> word64.off,
   val |-> word64.val, w32 |-> word32]

leafval(n) == n.val

\* a leaf that stores the address of the dname pointer, not its offset
\* from the value
newleaf_ptr(val, ppd) ==
  newnode([isb |-> FALSE, bmp |-> {}, off |-> 0, val |-> val], ppd)

\* a leaf from a value and the address of its dname pointer; the dname
\* pointer is the first member of the value, so the offset is 0
newleaf(val, ppd) ==
  newnode([isb |-> FALSE, bmp |-> {}, off |-> 0, val |-> val], ppd - val)

\* the 64-bit word of a branch with the given bitmap and key offset
branchword(bmp, off) == [isb |-> TRUE, bmp |-> bmp, off |-> off, val |-> NULL]

twigref(n) == node32(n)

keyoff(n) == n.off

twigbit(n, key, len) ==
  LET off == keyoff(n)
  IN  IF off < len THEN keyat(key, off) ELSE SHIFT_NOBYTE

hastwig(n, bit) == bit \in n.bmp

\* popcount of the bitmap bits below `bit`, the tag bit excluded
bmpcount(n, bit) == Cardinality({b \in n.bmp : b < bit})

twigmax(n) == bmpcount(n, SHIFT_OFFSET)

twigpos(n, bit) == bmpcount(n, bit)

\* the node a pointer refers to; a pointer into a page that is not
\* installed or past the end of the table reads junk
refptr(q, ref) ==
  IF refpage(ref) < q.pages /\ q.base[refpage(ref)] # NULLPAGE
  THEN q.base[refpage(ref)][reftwig(ref) + 1]
  ELSE JunkNode

deref(q, p) == IF p = ROOT THEN q.root ELSE refptr(q, p)

\* the address of the twig at the given position
twig(n, pos) == twigref(n) + pos

\* *p = node
store(q, p, node) ==
  IF p = ROOT THEN [q EXCEPT !.root = node]
  ELSE [q EXCEPT !.base[refpage(p)][reftwig(p) + 1] = node]

pageusage(q, page) ==
  q.usage[page].keep + q.usage[page].used - q.usage[page].free


\* ------------------------------------------------------------------------
\* The page allocator
\* ------------------------------------------------------------------------

ZeroUsage == [keep |-> 0, used |-> 0, free |-> 0]

alloc_page(q, page, size) ==
  [qp |-> [q EXCEPT !.base[page] = FreshPage,
                    !.usage[page].used = size,
                    !.bump = page],
   ref |-> QP_PAGE_SIZE * page]

\* alloc_slow() that looks for a free slot from the start of the table
alloc_slow_fromzero(q, size) ==
  LET free  == {p \in 0 .. q.pages - 1 : q.base[p] = NULLPAGE}
      min(S) == CHOOSE p \in S : \A o \in S : p <= o
      last  == q.pages
      pages == last + last \div 2 + 1
      grown == [q EXCEPT
                 !.base  = [p \in 0 .. pages - 1 |->
                              IF p < last THEN q.base[p] ELSE NULLPAGE],
                 !.usage = [p \in 0 .. pages - 1 |->
                              IF p < last THEN q.usage[p] ELSE ZeroUsage],
                 !.pages = pages]
  IN  IF free # {} THEN alloc_page(q, min(free), size)
      ELSE alloc_page(grown, last, size)

\* a fresh page in the first free slot from bump on, then from 0 on, else
\* in the first slot of a longer table
alloc_slow(q, size) ==
  LET above == {p \in q.bump .. q.pages - 1 : q.base[p] = NULLPAGE}
      below == {p \in 0 .. q.bump - 1 : q.base[p] = NULLPAGE}
      min(S) == CHOOSE p \in S : \A o \in S : p <= o
      last  == q.pages
      pages == last + last \div 2 + 1
      grown == [q EXCEPT
                 !.base  = [p \in 0 .. pages - 1 |->
                              IF p < last THEN q.base[p] ELSE NULLPAGE],
                 !.usage = [p \in 0 .. pages - 1 |->
                              IF p < last THEN q.usage[p] ELSE ZeroUsage],
                 !.pages = pages]
  IN  IF above # {} THEN alloc_page(q, min(above), size)
      ELSE IF below # {} THEN alloc_page(q, min(below), size)
      ELSE alloc_page(grown, last, size)

\* reset the allocator to the start of a fresh page
alloc_reset(q) == alloc_slow(q, 0).qp

\* alloc() whose test for room forgets the size of the request
alloc_overrun(q, size) ==
  LET page == q.bump
      twg  == q.usage[page].used
  IN  IF QP_PAGE_SIZE > twg
      THEN [qp |-> [q EXCEPT !.usage[page].used = @ + size],
            ref |-> QP_PAGE_SIZE * page + twg]
      ELSE alloc_slow(q, size)

\* allocate size twigs: from the current page if they fit, else from a
\* fresh page
alloc(q, size) ==
  LET page == q.bump
      twg  == q.usage[page].used
  IN  IF QP_PAGE_SIZE > twg + size
      THEN [qp |-> [q EXCEPT !.usage[page].used = @ + size],
            ref |-> QP_PAGE_SIZE * page + twg]
      ELSE alloc_slow(q, size)

\* landfill() that charges the allocation page, not the page of the twigs
landfill_bump(q, twigs, size) ==
  [q EXCEPT !.usage[q.bump].free = @ + size,
            !.garbage = @ + size]

\* landfill() that forgets the total
landfill_pageonly(q, twigs, size) ==
  [q EXCEPT !.usage[refpage(twigs)].free = @ + size]

\* landfill() that sets the count of the page to these twigs
landfill_set(q, twigs, size) ==
  [q EXCEPT !.usage[refpage(twigs)].free = size,
            !.garbage = @ + size]

\* make a note that these twigs are now garbage
landfill(q, twigs, size) ==
  [q EXCEPT !.usage[refpage(twigs)].free = @ + size,
            !.garbage = @ + size]

\* memcpy(dst, src, count * sizeof(qp_node)) between twig vectors
RECURSIVE copytwigs(_, _, _, _)
copytwigs(q, dst, src, count) ==
  IF count = 0 THEN q
  ELSE copytwigs(store(q, dst, refptr(q, src)), dst + 1, src + 1, count - 1)

\* memcpy(dst, twigs, ...) from a stack buffer (a sequence of nodes),
\* node by node from position i (counted from 1) on
RECURSIVE storetwigs(_, _, _, _)
\* a memcpy() that is one node short
storetwigs_short(q, dst, twigs, i) ==
  IF i >= Len(twigs) THEN q
  ELSE storetwigs(store(q, dst + i - 1, twigs[i]), dst, twigs, i + 1)

storetwigs(q, dst, twigs, i) ==
  IF i > Len(twigs) THEN q
  ELSE storetwigs(store(q, dst + i - 1, twigs[i]), dst, twigs, i + 1)

\* the twig vector of a branch, as memcpy() reads it into a stack buffer
twigvector(q, n) == [i \in 1 .. twigmax(n) |-> refptr(q, twig(n, i - 1))]

\* does a write through this reference hit a page that is not installed?
wild(q, ref) == refpage(ref) >= q.pages \/ q.base[refpage(ref)] = NULLPAGE


\* ------------------------------------------------------------------------
\* The collector
\* ------------------------------------------------------------------------

RECURSIVE compactify(_, _)
RECURSIVE compactify_twigs(_, _, _, _)

\* the loop of compactify() over the stack copy of the twigs, from
\* position i (counted from 1) on: a child branch is compacted through
\* the pointer to its copy, so the copy is what changes
compactify_twigs(q, twigs, i, used) ==
  IF i > Len(twigs) THEN [qp |-> q, twigs |-> twigs, used |-> used]
  ELSE IF isbranch(twigs[i])
       THEN LET r == compactify(q, twigs[i])
            IN  compactify_twigs(r.qp, [twigs EXCEPT ![i] = r.n], i + 1,
                                 used + r.used)
       ELSE compactify_twigs(q, twigs, i + 1, used)

\* compactify() that writes the moved children back into the vector of a
\* branch in a well used page instead of moving the branch
compactify_inplace(q, n) ==
  LET max   == twigmax(n)
      kids  == compactify_twigs(q, twigvector(q, n), 1, 0)
      q1    == kids.qp
      twigs == kids.twigs
      oldr  == twigref(n)
      a     == alloc(q1, max)
      newr  == a.ref
      q2    == storetwigs(a.qp, newr, twigs, 1)
  IN  IF pageusage(q1, refpage(oldr)) >= QP_MIN_USAGE
      THEN [qp |-> storetwigs(q1, oldr, twigs, 1), n |-> n,
            used |-> kids.used]
      ELSE [qp |-> landfill(q2, oldr, max),
            n |-> newnode(node64(n), newr),
            used |-> kids.used + max]

\* compactify() that keeps a branch in a well used page whether or not a
\* child moved
compactify_nocmp(q, n) ==
  LET max   == twigmax(n)
      kids  == compactify_twigs(q, twigvector(q, n), 1, 0)
      q1    == kids.qp
      twigs == kids.twigs
      oldr  == twigref(n)
      a     == alloc(q1, max)
      newr  == a.ref
      q2    == storetwigs(a.qp, newr, twigs, 1)
  IN  IF pageusage(q1, refpage(oldr)) >= QP_MIN_USAGE
      THEN [qp |-> q1, n |-> n, used |-> kids.used]
      ELSE [qp |-> landfill(q2, oldr, max),
            n |-> newnode(node64(n), newr),
            used |-> kids.used + max]

\* compactify(qp, n) for the branch *n; n is the node afterwards
compactify(q, n) ==
  LET max   == twigmax(n)
      kids  == compactify_twigs(q, twigvector(q, n), 1, 0)
      q1    == kids.qp
      twigs == kids.twigs
      oldr  == twigref(n)
      a     == alloc(q1, max)
      newr  == a.ref
      q2    == storetwigs(a.qp, newr, twigs, 1)
  IN  IF pageusage(q1, refpage(oldr)) >= QP_MIN_USAGE
         /\ twigs = twigvector(q1, n)
      THEN [qp |-> q1, n |-> n, used |-> kids.used]
      ELSE [qp |-> landfill(q2, oldr, max),
            n |-> newnode(node64(n), newr),
            used |-> kids.used + max]

qp_compact(q) ==
  LET q1 == alloc_reset(q)
      r  == compactify(q1, q1.root)
  IN  IF isbranch(q1.root) THEN [r.qp EXCEPT !.root = r.n] ELSE q1

RECURSIVE sumfree(_, _)
\* the total of the free counters of a set of pages
sumfree(q, S) ==
  IF S = {} THEN 0
  ELSE LET p == CHOOSE x \in S : TRUE
       IN  q.usage[p].free + sumfree(q, S \ {p})

\* qp_release() without the memset() of the usage record
qp_release_keepusage(q) ==
  LET empty == {p \in 0 .. q.pages - 1 : ~ (pageusage(q, p) > 0)}
  IN  [q EXCEPT
        !.base  = [p \in 0 .. q.pages - 1 |->
                     IF p \in empty THEN NULLPAGE ELSE q.base[p]],
        !.garbage = @ - sumfree(q, empty)]

\* qp_release() that leaves the garbage counter alone
qp_release_nosub(q) ==
  LET empty == {p \in 0 .. q.pages - 1 : ~ (pageusage(q, p) > 0)}
  IN  [q EXCEPT
        !.base  = [p \in 0 .. q.pages - 1 |->
                     IF p \in empty THEN NULLPAGE ELSE q.base[p]],
        !.usage = [p \in 0 .. q.pages - 1 |->
                     IF p \in empty THEN ZeroUsage ELSE q.usage[p]]]

\* qp_release() that frees every page that holds garbage
qp_release_anyfree(q) ==
  LET empty == {p \in 0 .. q.pages - 1 : q.usage[p].free > 0}
  IN  [q EXCEPT
        !.base  = [p \in 0 .. q.pages - 1 |->
                     IF p \in empty THEN NULLPAGE ELSE q.base[p]],
        !.usage = [p \in 0 .. q.pages - 1 |->
                     IF p \in empty THEN ZeroUsage ELSE q.usage[p]],
        !.garbage = @ - sumfree(q, empty)]

\* free the pages that hold no live twigs
qp_release(q) ==
  LET empty == {p \in 0 .. q.pages - 1 : ~ (pageusage(q, p) > 0)}
  IN  [q EXCEPT
        !.base  = [p \in 0 .. q.pages - 1 |->
                     IF p \in empty THEN NULLPAGE ELSE q.base[p]],
        !.usage = [p \in 0 .. q.pages - 1 |->
                     IF p \in empty THEN ZeroUsage ELSE q.usage[p]],
        !.garbage = @ - sumfree(q, empty)]

\* does garbage() run the collector for these twigs?
collects(q, twigs, size) == landfill(q, twigs, size).garbage > QP_MAX_GARBAGE

\* garbage() that runs the collector whenever any garbage is left
garbage_eager(q, twigs, size) ==
  LET q1 == landfill(q, twigs, size)
  IN  IF q1.garbage > 0 THEN qp_release(qp_compact(q1)) ELSE q1

garbage(q, twigs, size) ==
  LET q1 == landfill(q, twigs, size)
  IN  IF q1.garbage > QP_MAX_GARBAGE THEN qp_release(qp_compact(q1)) ELSE q1

\* the struct qp after region_alloc_zero(), before the first alloc_reset()
ZeroQP ==
  [leaves |-> 0, root |-> ZeroNode, base |-> << >>, usage |-> << >>,
   pages |-> 0, bump |-> 0, garbage |-> 0]

qp_init == alloc_reset(ZeroQP)

qp_count(q) == q.leaves


\* ------------------------------------------------------------------------
\* Trie operations.  h is the memory of the values: h[a] is the dname
\* pointer stored at address a (NoName where no value lives).
\* ------------------------------------------------------------------------

\* a null node pointer
NOPTR == -2

\* get a leaf's domain name: the pointer stored at val + node32(n)
leafname(h, n) == h[leafval(n) + node32(n)]

RECURSIVE foreach(_, _)
RECURSIVE foreach_twigs(_, _, _)
\* the values handed to fn, in the order of the calls
foreach(q, n) ==
  IF isbranch(n) THEN foreach_twigs(q, n, 0)
  ELSE IF leafval(n) # NULL THEN << leafval(n) >> ELSE << >>

\* foreach() with a loop that stops one twig short
foreach_twigs_short(q, n, pos) ==
  IF pos < twigmax(n) - 1
  THEN foreach(q, refptr(q, twig(n, pos))) \o foreach_twigs(q, n, pos + 1)
  ELSE << >>

foreach_twigs(q, n, pos) ==
  IF pos < twigmax(n)
  THEN foreach(q, refptr(q, twig(n, pos))) \o foreach_twigs(q, n, pos + 1)
  ELSE << >>

qp_foreach(q) == foreach(q, q.root)

RECURSIVE get_walk(_, _, _, _)
\* the descent of qp_get: the leaf reached, or NOPTR when a twig is missing
get_walk(q, n, key, len) ==
  IF isbranch(deref(q, n))
  THEN LET bit == twigbit(deref(q, n), key, len)
       IN  IF ~ hastwig(deref(q, n), bit) THEN NOPTR
           ELSE get_walk(q, twig(deref(q, n), twigpos(deref(q, n), bit)),
                         key, len)
  ELSE n

\* qp_get() without the comparison of the leaf's name
qp_get_anyleaf(q, h, dname) ==
  LET key == dname_to_key(dname)
      n   == get_walk(q, ROOT, key, keylen(key))
  IN  IF n = NOPTR THEN NULL
      ELSE IF leafval(deref(q, n)) # NULL THEN leafval(deref(q, n))
           ELSE NULL

qp_get(q, h, dname) ==
  LET key == dname_to_key(dname)
      n   == get_walk(q, ROOT, key, keylen(key))
  IN  IF n = NOPTR THEN NULL
      ELSE IF leafval(deref(q, n)) # NULL
              /\ dname_equal(dname, leafname(h, deref(q, n)))
           THEN leafval(deref(q, n))
           ELSE NULL

RECURSIVE last_leaf(_, _)
\* last_leaf() that follows the first twig
last_leaf_first(q, n) ==
  IF isbranch(deref(q, n))
  THEN last_leaf(q, twig(deref(q, n), 0))
  ELSE n

last_leaf(q, n) ==
  IF isbranch(deref(q, n))
  THEN last_leaf(q, twig(deref(q, n), twigmax(deref(q, n)) - 1))
  ELSE n

RECURSIVE first_leaf(_, _)
first_leaf(q, n) ==
  IF isbranch(deref(q, n)) THEN first_leaf(q, twig(deref(q, n), 0)) ELSE n

\* walk prev and next nodes down to their leaves, and convert from nodes
\* to values
prev_next_leaves(pn, q) ==
  [prev |-> IF pn.prev # NOPTR
            THEN leafval(deref(q, last_leaf(q, pn.prev))) ELSE NULL,
   next |-> IF pn.next # NOPTR
            THEN leafval(deref(q, first_leaf(q, pn.next))) ELSE NULL]

\* prev_next_step() that forgets the neighbours found higher up
prev_next_step_reset(pn, n, pos, max) ==
  [prev |-> IF pos > 0 THEN twig(n, pos - 1) ELSE NOPTR,
   next |-> IF pos < max - 1 THEN twig(n, pos + 1) ELSE NOPTR]

\* update prev and next for this node
prev_next_step(pn, n, pos, max) ==
  [prev |-> IF pos > 0 THEN twig(n, pos - 1) ELSE pn.prev,
   next |-> IF pos < max - 1 THEN twig(n, pos + 1) ELSE pn.next]

RECURSIVE keydiff(_, _, _, _)
\* the first off in off..len with newk[off] # oldk[off], or len + 1
\* the comparison loop with off < len as its condition
keydiff_short(newk, oldk, off, len) ==
  IF off >= len THEN off
  ELSE IF keyat(newk, off) # keyat(oldk, off) THEN off
  ELSE keydiff(newk, oldk, off + 1, len)

keydiff(newk, oldk, off, len) ==
  IF off > len THEN off
  ELSE IF keyat(newk, off) # keyat(oldk, off) THEN off
  ELSE keydiff(newk, oldk, off + 1, len)


RECURSIVE del_walk(_, _, _, _, _, _)
\* the descent of qp_del: the leaf n reached, its parent p and the bit
\* of the leaf in the parent; n is NOPTR when a twig is missing
del_walk(q, n, p, bit, key, len) ==
  IF isbranch(deref(q, n))
  THEN LET b == twigbit(deref(q, n), key, len)
       IN  IF ~ hastwig(deref(q, n), b)
           THEN [n |-> NOPTR, p |-> p, bit |-> b]
           ELSE del_walk(q, twig(deref(q, n), twigpos(deref(q, n), b)),
                         n, b, key, len)
  ELSE [n |-> n, p |-> p, bit |-> bit]

\* the tree becomes empty, without the memset() of the root
del_empty_count(q) == [q EXCEPT !.leaves = @ - 1]

\* qp_del(), the tree becomes empty
del_empty(q) == [q EXCEPT !.root = ZeroNode, !.leaves = @ - 1]

\* the max == 2 case without the decrement of the leaf count
del_collapse_nocount(q, n, pos) ==
  LET max   == twigmax(deref(q, n))
      oldr  == twigref(deref(q, n))
      other == refptr(q, twig(deref(q, n), IF pos = 0 THEN 1 ELSE 0))
      q1    == store(q, n, other)
  IN  [qp |-> garbage(q1, oldr, max), fault |-> "none", case |-> "collapse",
       gc |-> collects(q1, oldr, max)]

\* qp_del(), max == 2: move the other twig to the parent branch *n
del_collapse(q, n, pos) ==
  LET max   == twigmax(deref(q, n))
      oldr  == twigref(deref(q, n))
      other == refptr(q, twig(deref(q, n), IF pos = 0 THEN 1 ELSE 0))
      q1    == store(q, n, other)
      q2    == [q1 EXCEPT !.leaves = @ - 1]
  IN  [qp |-> garbage(q2, oldr, max), fault |-> "none", case |-> "collapse",
       gc |-> collects(q2, oldr, max)]

\* the shrink case with the second memcpy() starting at oldp + pos
del_shrink_keep(q, n, bit, pos) ==
  LET max  == twigmax(deref(q, n))
      oldr == twigref(deref(q, n))
      a    == alloc(q, max - 1)
      newr == a.ref
      q1   == store(a.qp, n,
                    newnode([node64(deref(q, n)) EXCEPT !.bmp = @ \ {bit}],
                            newr))
      q2   == copytwigs(q1, newr, oldr, pos)
      q3   == copytwigs(q2, newr + pos, oldr + pos, max - pos - 1)
      q4   == [q3 EXCEPT !.leaves = @ - 1]
  IN  IF wild(a.qp, newr)
      THEN [qp |-> q1, fault |-> "segv", case |-> "shrink", gc |-> FALSE]
      ELSE [qp |-> garbage(q4, oldr, max), fault |-> "none",
            case |-> "shrink", gc |-> collects(q4, oldr, max)]

\* the shrink case without the garbage() call for the old twigs
del_shrink_nofill(q, n, bit, pos) ==
  LET max  == twigmax(deref(q, n))
      oldr == twigref(deref(q, n))
      a    == alloc(q, max - 1)
      newr == a.ref
      q1   == store(a.qp, n,
                    newnode([node64(deref(q, n)) EXCEPT !.bmp = @ \ {bit}],
                            newr))
      q2   == copytwigs(q1, newr, oldr, pos)
      q3   == copytwigs(q2, newr + pos, oldr + pos + 1, max - pos - 1)
      q4   == [q3 EXCEPT !.leaves = @ - 1]
  IN  IF wild(a.qp, newr)
      THEN [qp |-> q1, fault |-> "segv", case |-> "shrink", gc |-> FALSE]
      ELSE [qp |-> q4, fault |-> "none", case |-> "shrink", gc |-> FALSE]

\* qp_del(), shrink twigs: the twigs of *n without the one at pos
del_shrink(q, n, bit, pos) ==
  LET max  == twigmax(deref(q, n))
      oldr == twigref(deref(q, n))
      a    == alloc(q, max - 1)
      newr == a.ref
      q1   == store(a.qp, n,
                    newnode([node64(deref(q, n)) EXCEPT !.bmp = @ \ {bit}],
                            newr))
      q2   == copytwigs(q1, newr, oldr, pos)
      q3   == copytwigs(q2, newr + pos, oldr + pos + 1, max - pos - 1)
      q4   == [q3 EXCEPT !.leaves = @ - 1]
  IN  IF wild(a.qp, newr)
      THEN [qp |-> q1, fault |-> "segv", case |-> "shrink", gc |-> FALSE]
      ELSE [qp |-> garbage(q4, oldr, max), fault |-> "none",
            case |-> "shrink", gc |-> collects(q4, oldr, max)]

\* qp_del() without the comparison of the leaf's name
qp_del_anyleaf(q, h, dname) ==
  LET key  == dname_to_key(dname)
      w    == del_walk(q, ROOT, NOPTR, 0, key, keylen(key))
      n    == w.p
      pos  == twigpos(deref(q, n), w.bit)
      max  == twigmax(deref(q, n))
  IN  IF w.n = NOPTR
      THEN [qp |-> q, fault |-> "none", case |-> "notwig", gc |-> FALSE]
      ELSE IF leafval(deref(q, w.n)) = NULL
      THEN [qp |-> q, fault |-> "segv", case |-> "nullval", gc |-> FALSE]
      ELSE IF w.p = NOPTR
      THEN [qp |-> del_empty(q), fault |-> "none", case |-> "empty",
            gc |-> FALSE]
      ELSE IF max = 2
      THEN del_collapse(q, n, pos)
      ELSE del_shrink(q, n, w.bit, pos)

\* qp_del(): the struct afterwards, how the call ended ("none": it
\* returned) and which of its cases applied
qp_del(q, h, dname) ==
  LET key  == dname_to_key(dname)
      w    == del_walk(q, ROOT, NOPTR, 0, key, keylen(key))
      leaf == deref(q, w.n)
      \* step back to parent node
      n    == w.p
      pos  == twigpos(deref(q, n), w.bit)
      max  == twigmax(deref(q, n))
  IN  IF w.n = NOPTR
      THEN [qp |-> q, fault |-> "none", case |-> "notwig", gc |-> FALSE]
      ELSE IF leafval(leaf) = NULL
      THEN \* leafname() reads through a null value pointer
           [qp |-> q, fault |-> "segv", case |-> "nullval", gc |-> FALSE]
      ELSE IF ~ dname_equal(dname, leafname(h, leaf))
      THEN [qp |-> q, fault |-> "none", case |-> "mismatch", gc |-> FALSE]
      ELSE IF w.p = NOPTR
      THEN [qp |-> del_empty(q), fault |-> "none", case |-> "empty",
            gc |-> FALSE]
      ELSE IF max = 2
      THEN del_collapse(q, n, pos)
      ELSE del_shrink(q, n, w.bit, pos)

RECURSIVE add_walk1(_, _, _, _)
\* the first descent of qp_add: down to a leaf, through twig 0 where the
\* key's bit is missing
add_walk1(q, n, newk, newl) ==
  IF isbranch(deref(q, n))
  THEN LET bit == twigbit(deref(q, n), newk, newl)
           pos == IF hastwig(deref(q, n), bit)
                  THEN twigpos(deref(q, n), bit) ELSE 0
       IN  add_walk1(q, twig(deref(q, n), pos), newk, newl)
  ELSE n

RECURSIVE add_walk2(_, _, _, _, _, _)
\* the second descent without the stop at a branch beyond the offset
add_walk2_deep(q, n, pn, off, newk, newl) ==
  LET node == deref(q, n)
      bit  == twigbit(node, newk, newl)
      pos  == twigpos(node, bit)
      max  == twigmax(node)
  IN  IF ~ isbranch(node) THEN [n |-> n, pn |-> pn, at |-> "newbranch"]
      ELSE IF off = keyoff(node) THEN [n |-> n, pn |-> pn, at |-> "growbranch"]
      ELSE IF ~ hastwig(node, bit) THEN [n |-> n, pn |-> pn, at |-> "assert"]
      ELSE add_walk2(q, twig(node, pos), prev_next_step(pn, node, pos, max),
                     off, newk, newl)

\* the second descent of qp_add: where to insert a branch or grow one,
\* keeping track of the adjacent nodes
add_walk2(q, n, pn, off, newk, newl) ==
  LET node == deref(q, n)
      bit  == twigbit(node, newk, newl)
      pos  == twigpos(node, bit)
      max  == twigmax(node)
  IN  IF ~ isbranch(node) THEN [n |-> n, pn |-> pn, at |-> "newbranch"]
      ELSE IF off < keyoff(node) THEN [n |-> n, pn |-> pn, at |-> "newbranch"]
      ELSE IF off = keyoff(node) THEN [n |-> n, pn |-> pn, at |-> "growbranch"]
      ELSE IF ~ hastwig(node, bit) THEN [n |-> n, pn |-> pn, at |-> "assert"]
      ELSE add_walk2(q, twig(node, pos), prev_next_step(pn, node, pos, max),
                     off, newk, newl)

NoPN == [prev |-> NULL, next |-> NULL]

\* qp_add(), first leaf in an empty tree
add_first(q, newn) == [q EXCEPT !.root = newn, !.leaves = @ + 1]

\* newbranch with the key offset one too far
add_newbranch_offnext(q, n, pn, newn, off, newb, oldb) ==
  LET a    == alloc(q, 2)
      newr == a.ref
      oldn == deref(q, n)
      q1   == store(a.qp, n, newnode(branchword({newb, oldb}, off + 1), newr))
      q2   == IF newb < oldb
              THEN store(store(q1, newr, newn), newr + 1, oldn)
              ELSE store(store(q1, newr, oldn), newr + 1, newn)
      pn1  == IF newb < oldb THEN [pn EXCEPT !.next = newr + 1]
                             ELSE [pn EXCEPT !.prev = newr]
      q3   == [q2 EXCEPT !.leaves = @ + 1]
  IN  IF wild(a.qp, newr)
      THEN [qp |-> q1, fault |-> "segv", pn |-> NoPN, case |-> "newbranch",
            gc |-> FALSE]
      ELSE [qp |-> q3, fault |-> "none", pn |-> prev_next_leaves(pn1, q3),
            case |-> "newbranch", gc |-> FALSE]

\* qp_add(), newbranch: *n becomes a branch with two twigs, the new leaf
\* and the old node, in the order of their bits
add_newbranch(q, n, pn, newn, off, newb, oldb) ==
  LET a    == alloc(q, 2)
      newr == a.ref
      oldn == deref(q, n)
      q1   == store(a.qp, n, newnode(branchword({newb, oldb}, off), newr))
      q2   == IF newb < oldb
              THEN store(store(q1, newr, newn), newr + 1, oldn)
              ELSE store(store(q1, newr, oldn), newr + 1, newn)
      pn1  == IF newb < oldb THEN [pn EXCEPT !.next = newr + 1]
                             ELSE [pn EXCEPT !.prev = newr]
      q3   == [q2 EXCEPT !.leaves = @ + 1]
  IN  IF wild(a.qp, newr)
      THEN [qp |-> q1, fault |-> "segv", pn |-> NoPN, case |-> "newbranch",
            gc |-> FALSE]
      ELSE [qp |-> q3, fault |-> "none", pn |-> prev_next_leaves(pn1, q3),
            case |-> "newbranch", gc |-> FALSE]

\* growbranch with the new leaf put after the old twigs
add_growbranch_append(q, n, pn, newn, newb) ==
  LET pos  == twigmax(deref(q, n))
      max  == twigmax(deref(q, n))
      oldr == twigref(deref(q, n))
      a    == alloc(q, max + 1)
      newr == a.ref
      q1   == store(a.qp, n,
                    newnode([node64(deref(q, n)) EXCEPT !.bmp = @ \cup {newb}],
                            newr))
      q2   == copytwigs(q1, newr, oldr, pos)
      q3   == store(q2, newr + pos, newn)
      q4   == copytwigs(q3, newr + pos + 1, oldr + pos, max - pos)
      pn1  == prev_next_step(pn, deref(q4, n), pos, max + 1)
      pn2  == prev_next_leaves(pn1, q4)
      q5   == [q4 EXCEPT !.leaves = @ + 1]
  IN  IF hastwig(deref(q, n), newb)
      THEN [qp |-> q, fault |-> "assert", pn |-> NoPN, case |-> "hastwig",
            gc |-> FALSE]
      ELSE IF wild(a.qp, newr)
      THEN [qp |-> q1, fault |-> "segv", pn |-> NoPN, case |-> "growbranch",
            gc |-> FALSE]
      ELSE [qp |-> garbage(q5, oldr, max), fault |-> "none", pn |-> pn2,
            case |-> "growbranch", gc |-> collects(q5, oldr, max)]

\* qp_add(), growbranch: the twigs of *n with the new leaf among them
add_growbranch(q, n, pn, newn, newb) ==
  LET pos  == twigpos(deref(q, n), newb)
      max  == twigmax(deref(q, n))
      oldr == twigref(deref(q, n))
      a    == alloc(q, max + 1)
      newr == a.ref
      q1   == store(a.qp, n,
                    newnode([node64(deref(q, n)) EXCEPT !.bmp = @ \cup {newb}],
                            newr))
      q2   == copytwigs(q1, newr, oldr, pos)
      q3   == store(q2, newr + pos, newn)
      q4   == copytwigs(q3, newr + pos + 1, oldr + pos, max - pos)
      pn1  == prev_next_step(pn, deref(q4, n), pos, max + 1)
      pn2  == prev_next_leaves(pn1, q4)
      q5   == [q4 EXCEPT !.leaves = @ + 1]
  IN  IF hastwig(deref(q, n), newb)
      THEN [qp |-> q, fault |-> "assert", pn |-> NoPN, case |-> "hastwig",
            gc |-> FALSE]
      ELSE IF wild(a.qp, newr)
      THEN [qp |-> q1, fault |-> "segv", pn |-> NoPN, case |-> "growbranch",
            gc |-> FALSE]
      ELSE [qp |-> garbage(q5, oldr, max), fault |-> "none", pn |-> pn2,
            case |-> "growbranch", gc |-> collects(q5, oldr, max)]

\* qp_add(): the struct afterwards, how the call ended, the neighbours
\* returned and which of its cases applied
qp_add(q, h, val, ppdname) ==
  LET dname == h[ppdname]
      newk  == dname_to_key(dname)
      newl  == keylen(newk)
      newn  == newleaf(val, ppdname)
      n1    == add_walk1(q, ROOT, newk, newl)
      \* do the keys differ, and if so, where?
      oldk  == dname_to_key(leafname(h, deref(q, n1)))
      off   == keydiff(newk, oldk, 0, newl)
      newb  == keyat(newk, off)
      oldb  == keyat(oldk, off)
      w     == add_walk2(q, ROOT, [prev |-> NOPTR, next |-> NOPTR],
                         off, newk, newl)
  IN  IF q.leaves = 0
      THEN [qp |-> add_first(q, newn), fault |-> "none", pn |-> NoPN,
            case |-> "first", gc |-> FALSE]
      ELSE IF off > newl
      THEN \* should not qp_add() an existing dname
           [qp |-> q, fault |-> "assert", pn |-> NoPN, case |-> "existing",
            gc |-> FALSE]
      ELSE IF w.at = "assert"
      THEN [qp |-> q, fault |-> "assert", pn |-> NoPN, case |-> "notwig",
            gc |-> FALSE]
      ELSE IF w.at = "newbranch"
      THEN add_newbranch(q, w.n, w.pn, newn, off, newb, oldb)
      ELSE add_growbranch(q, w.n, w.pn, newn, newb)

RECURSIVE find_walk1(_, _, _, _)
\* the first descent of qp_find_le: the node where it stops, and whether
\* it stopped at a branch that lacks the twig (goto inexact)
find_walk1(q, n, key, len) ==
  IF isbranch(deref(q, n))
  THEN LET bit == twigbit(deref(q, n), key, len)
       IN  IF ~ hastwig(deref(q, n), bit) THEN [n |-> n, missing |-> TRUE]
           ELSE find_walk1(q, twig(deref(q, n), twigpos(deref(q, n), bit)),
                           key, len)
  ELSE [n |-> n, missing |-> FALSE]

RECURSIVE find_walk2(_, _, _, _, _, _)
\* the second descent of qp_find_le: walk down again stopping at the
\* correct place, keeping track of the previous node
find_walk2(q, n, p, off, key, len) ==
  LET node == deref(q, n)
      bit  == twigbit(node, key, len)
      pos  == twigpos(node, bit)
      p1   == IF pos > 0 THEN twig(node, pos - 1) ELSE p
  IN  IF ~ isbranch(node) THEN [n |-> n, p |-> p, at |-> "prev"]
      ELSE IF off < keyoff(node) THEN [n |-> n, p |-> p, at |-> "prev"]
      ELSE IF off = keyoff(node) THEN [n |-> n, p |-> p1, at |-> "here"]
      ELSE IF ~ hastwig(node, bit) THEN [n |-> n, p |-> p1, at |-> "assert"]
      ELSE find_walk2(q, twig(node, pos), p1, off, key, len)

\* qp_find_le(): the return value and *pval
qp_find_le(q, h, dname) ==
  LET key   == dname_to_key(dname)
      len   == keylen(key)
      w1    == find_walk1(q, ROOT, key, len)
      leaf  == deref(q, w1.n)
      \* slower path to find where the keys differ
      found == dname_to_key(leafname(h, deref(q, first_leaf(q, w1.n))))
      off   == keydiff(key, found, 0, len)
      w2    == find_walk2(q, ROOT, NOPTR, off, key, len)
  IN  IF ~ w1.missing /\ leafval(leaf) = NULL
      THEN \* empty tree
           [ret |-> 0, val |-> NULL, fault |-> "none"]
      ELSE IF ~ w1.missing /\ dname_equal(dname, leafname(h, leaf))
      THEN [ret |-> 1, val |-> leafval(leaf), fault |-> "none"]
      ELSE IF w2.at = "assert"
      THEN [ret |-> 0, val |-> NULL, fault |-> "assert"]
      ELSE IF w2.at = "prev" /\ keyat(key, off) > keyat(found, off)
      THEN \* everything in this subtree is before our search key
           [ret |-> 0, val |-> leafval(deref(q, last_leaf(q, w2.n))),
            fault |-> "none"]
      ELSE IF w2.p # NOPTR
      THEN \* the search key is just after the previous node
           [ret |-> 0, val |-> leafval(deref(q, last_leaf(q, w2.p))),
            fault |-> "none"]
      ELSE \* the search key is before everything
           [ret |-> 0, val |-> NULL, fault |-> "none"]


\* ------------------------------------------------------------------------
\* The twig vector accesses of the operations: for each twig(qp, n, pos)
\* and each node of a vector that memcpy() touches, the twig count of the
\* branch and the position used.
\* ------------------------------------------------------------------------

\* one access: position pos of the vector of the branch node
access(node, pos) == [max |-> twigmax(node), pos |-> pos, has |-> TRUE]

\* the access twig(qp, n, twigpos(n, bit)), and whether the bit is there
bitaccess(node, bit) ==
  [max |-> twigmax(node), pos |-> twigpos(node, bit),
   has |-> hastwig(node, bit)]

RECURSIVE get_twigs(_, _, _, _)
\* the descent of qp_get, of qp_del and the first one of qp_find_le
get_twigs(q, n, key, len) ==
  LET node == deref(q, n)
      bit  == twigbit(node, key, len)
      pos  == twigpos(node, bit)
  IN  IF isbranch(node) /\ hastwig(node, bit)
      THEN {bitaccess(node, bit)}
             \cup get_twigs(q, twig(node, pos), key, len)
      ELSE {}

RECURSIVE first_leaf_twigs(_, _)
first_leaf_twigs(q, n) ==
  IF isbranch(deref(q, n))
  THEN {access(deref(q, n), 0)}
         \cup first_leaf_twigs(q, twig(deref(q, n), 0))
  ELSE {}

RECURSIVE last_leaf_twigs(_, _)
last_leaf_twigs(q, n) ==
  IF isbranch(deref(q, n))
  THEN {access(deref(q, n), twigmax(deref(q, n)) - 1)}
         \cup last_leaf_twigs(q, twig(deref(q, n), twigmax(deref(q, n)) - 1))
  ELSE {}

\* prev_next_leaves()
prev_next_twigs(pn, q) ==
  (IF pn.prev # NOPTR THEN last_leaf_twigs(q, pn.prev) ELSE {})
    \cup (IF pn.next # NOPTR THEN first_leaf_twigs(q, pn.next) ELSE {})

\* prev_next_step()
step_twigs(node, pos, max) ==
  (IF pos > 0 THEN {access(node, pos - 1)} ELSE {})
    \cup (IF pos < max - 1 THEN {access(node, pos + 1)} ELSE {})

\* qp_del(): the descent, the other twig of a branch of two, or the two
\* memcpy() calls from the old vector into the new, shorter one
qp_del_twigs(q, h, dname) ==
  LET key  == dname_to_key(dname)
      w    == del_walk(q, ROOT, NOPTR, 0, key, keylen(key))
      leaf == deref(q, w.n)
      node == deref(q, w.p)
      pos  == twigpos(node, w.bit)
      max  == twigmax(node)
      newn == [node EXCEPT !.bmp = @ \ {w.bit}]
  IN  get_twigs(q, ROOT, key, keylen(key))
        \cup IF w.n = NOPTR \/ w.p = NOPTR THEN {}
             ELSE IF leafval(leaf) = NULL THEN {}
             ELSE IF ~ dname_equal(dname, leafname(h, leaf)) THEN {}
             ELSE IF max = 2
             THEN {access(node, IF pos = 0 THEN 1 ELSE 0)}
             ELSE {access(node, i) : i \in 0 .. pos - 1}
                    \cup {access(node, i + 1) : i \in pos .. max - 2}
                    \cup {access(newn, i) : i \in 0 .. max - 2}

RECURSIVE add_walk1_twigs(_, _, _, _)
\* the first descent that uses twigpos() whether or not the bit is there
add_walk1_twigs_pos(q, n, newk, newl) ==
  LET node == deref(q, n)
      bit  == twigbit(node, newk, newl)
      pos  == twigpos(node, bit)
  IN  IF isbranch(node)
      THEN {access(node, pos)}
             \cup add_walk1_twigs(q, twig(node, IF hastwig(node, bit)
                                               THEN pos ELSE 0),
                                  newk, newl)
      ELSE {}

\* the first descent of qp_add
add_walk1_twigs(q, n, newk, newl) ==
  LET node == deref(q, n)
      bit  == twigbit(node, newk, newl)
      pos  == IF hastwig(node, bit) THEN twigpos(node, bit) ELSE 0
  IN  IF isbranch(node)
      THEN {access(node, pos)}
             \cup add_walk1_twigs(q, twig(node, pos), newk, newl)
      ELSE {}

RECURSIVE add_walk2_twigs(_, _, _, _, _)
\* the second descent of qp_add; where the assertion is compiled out the
\* descent goes on through twigpos() of a bit that is missing
add_walk2_twigs(q, n, off, newk, newl) ==
  LET node == deref(q, n)
      bit  == twigbit(node, newk, newl)
      pos  == twigpos(node, bit)
      max  == twigmax(node)
  IN  IF ~ isbranch(node) \/ off <= keyoff(node) THEN {}
      ELSE {bitaccess(node, bit)} \cup step_twigs(node, pos, max)
             \cup IF hastwig(node, bit)
                  THEN add_walk2_twigs(q, twig(node, pos), off, newk, newl)
                  ELSE {}

\* qp_add(): both descents, the two twigs of a new branch or the copy of
\* the old vector into the grown one around the new leaf, and the walks
\* down to the neighbouring leaves
qp_add_twigs(q, h, val, ppdname) ==
  LET dname == h[ppdname]
      newk  == dname_to_key(dname)
      newl  == keylen(newk)
      n1    == add_walk1(q, ROOT, newk, newl)
      oldk  == dname_to_key(leafname(h, deref(q, n1)))
      off   == keydiff(newk, oldk, 0, newl)
      newb  == keyat(newk, off)
      oldb  == keyat(oldk, off)
      w     == add_walk2(q, ROOT, [prev |-> NOPTR, next |-> NOPTR],
                         off, newk, newl)
      node  == deref(q, w.n)
      pos   == twigpos(node, newb)
      max   == twigmax(node)
      grown == [node EXCEPT !.bmp = @ \cup {newb}]
      fresh == branchword({newb, oldb}, off)
      \* the neighbours, by the nodes that hold them before the call
      pnnew == IF newb < oldb THEN [w.pn EXCEPT !.next = w.n]
                              ELSE [w.pn EXCEPT !.prev = w.n]
      pngrow == [prev |-> IF pos > 0 THEN twig(node, pos - 1)
                          ELSE w.pn.prev,
                 next |-> IF pos < max THEN twig(node, pos) ELSE w.pn.next]
  IN  IF q.leaves = 0 THEN {}
      ELSE add_walk1_twigs(q, ROOT, newk, newl)
             \cup IF off > newl THEN {}
                  ELSE add_walk2_twigs(q, ROOT, off, newk, newl)
                         \cup IF w.at = "newbranch"
                              THEN {access(fresh, 0), access(fresh, 1)}
                                     \cup prev_next_twigs(pnnew, q)
                              ELSE IF w.at = "growbranch"
                              THEN {access(node, i) : i \in 0 .. max - 1}
                                     \cup {access(grown, i) : i \in 0 .. max}
                                     \cup step_twigs(grown, pos, max + 1)
                                     \cup prev_next_twigs(pngrow, q)
                              ELSE {}

RECURSIVE find_walk2_twigs(_, _, _, _, _)
\* the second descent of qp_find_le; where the assertion is compiled out
\* the descent goes on through twigpos() of a bit that is missing
find_walk2_twigs(q, n, off, key, len) ==
  LET node == deref(q, n)
      bit  == twigbit(node, key, len)
      pos  == twigpos(node, bit)
  IN  IF ~ isbranch(node) \/ off < keyoff(node) THEN {}
      ELSE (IF pos > 0 THEN {access(node, pos - 1)} ELSE {})
             \cup IF off = keyoff(node) THEN {}
                  ELSE {bitaccess(node, bit)}
                         \cup IF hastwig(node, bit)
                              THEN find_walk2_twigs(q, twig(node, pos), off,
                                                    key, len)
                              ELSE {}

\* qp_find_le(): the first descent, first_leaf(), the second descent and
\* last_leaf() from where it stopped
qp_find_le_twigs(q, h, dname) ==
  LET key   == dname_to_key(dname)
      len   == keylen(key)
      w1    == find_walk1(q, ROOT, key, len)
      leaf  == deref(q, w1.n)
      found == dname_to_key(leafname(h, deref(q, first_leaf(q, w1.n))))
      off   == keydiff(key, found, 0, len)
      w2    == find_walk2(q, ROOT, NOPTR, off, key, len)
  IN  get_twigs(q, ROOT, key, len)
        \cup IF ~ w1.missing /\ leafval(leaf) = NULL THEN {}
             ELSE IF ~ w1.missing /\ dname_equal(dname, leafname(h, leaf))
             THEN {}
             ELSE first_leaf_twigs(q, w1.n)
                    \cup find_walk2_twigs(q, ROOT, off, key, len)
                    \cup IF w2.at = "assert" THEN {}
                         ELSE IF w2.at = "prev"
                                 /\ keyat(key, off) > keyat(found, off)
                         THEN last_leaf_twigs(q, w2.n)
                         ELSE IF w2.p # NOPTR THEN last_leaf_twigs(q, w2.p)
                         ELSE {}


\* ------------------------------------------------------------------------
\* The program: a trie handle, the values the caller owns, and the calls
\* the caller makes (as the test harness add_elem / del_elem / cutest_qp
\* makes them).
\* ------------------------------------------------------------------------

\* the page table is at most this long (guards the calls that allocate)
MaxPages == 4

\* the domain names the caller uses, normalised to lower case
Names ==
  { << >>,                      \* .
    << <<97>> >>,               \* a.
    << <<98>> >>,               \* b.
    << <<97, 97>> >>,           \* aa.
    << <<97>>, <<97>> >>,       \* a.a.
    << <<42>>, <<97>> >> }      \* *.a.

\* the root of a name that is no name: the content of freed value memory
NoName == << <<0>>, <<0>>, <<0>> >>

\* addresses of values (struct elem); the dname pointer is its first member
Vals == 1 .. Cardinality(Names) + 1

\* the caller makes at most this many calls
MaxOps == 5

\* the copy-on-write transaction: whether one is open, the new trie a
\* writer works on, what qp_get gave for every name when it was opened,
\* the pages whose memory the two tries share, the values deleted in it
NoCow == [open |-> FALSE, new |-> ZeroQP, snap |-> [d \in Names |-> NULL],
          shared |-> {}, dead |-> {}]

VARIABLES qp, heap, fault, last, nops, cow

vars == << qp, heap, fault, last, nops, cow >>

\* the values that hold a name, and the value of a name
live(h) == {v \in Vals : h[v] # NoName}

present(h) == {h[v] : v \in live(h)}

valof(h, dname) == IF dname \in present(h)
                   THEN CHOOSE v \in live(h) : h[v] = dname ELSE NULL

\* region_alloc(): the lowest free address
region_alloc(h) == CHOOSE v \in Vals \ live(h) : \A o \in Vals \ live(h) : v <= o

Init ==
  /\ qp = qp_init
  /\ heap = [v \in Vals |-> NoName]
  /\ fault = "none"
  /\ last = [op |-> "init", dname |-> << >>, ret |-> NULL, case |-> "none",
            gc |-> FALSE]
  /\ nops = 0
  /\ cow = NoCow

\* add_elem() with a name that is not in the trie
Add(dname) ==
  LET e == region_alloc(heap)
      h == [heap EXCEPT ![e] = dname]
      r == qp_add(qp, h, e, e)
  IN  /\ fault = "none"
      /\ nops < MaxOps
      /\ nops' = nops + 1
      /\ UNCHANGED cow
      /\ dname \notin present(heap)
      /\ r.qp.pages <= MaxPages
      /\ qp' = r.qp
      /\ heap' = h
      /\ fault' = r.fault
      /\ last' = [op |-> "add", dname |-> dname, ret |-> r.pn, case |-> r.case,
                  gc |-> r.gc]

\* qp_add() with a name that is in the trie already: the assertion fails,
\* or in a build with NDEBUG the call returns; the new value is given back
AddExisting(dname) ==
  LET e == region_alloc(heap)
      h == [heap EXCEPT ![e] = dname]
      r == qp_add(qp, h, e, e)
  IN  /\ fault = "none"
      /\ nops < MaxOps
      /\ nops' = nops + 1
      /\ UNCHANGED cow
      /\ dname \in present(heap)
      /\ qp' = r.qp
      /\ heap' = heap
      /\ \/ fault' = r.fault
         \/ r.fault = "assert" /\ r.case = "existing" /\ fault' = "none"
      /\ last' = [op |-> "addexisting", dname |-> dname, ret |-> r.pn,
                  case |-> r.case, gc |-> r.gc]

\* qp_del(); the caller recycles the value of a name it deleted
Del(dname) ==
  LET r == qp_del(qp, heap, dname)
  IN  /\ fault = "none"
      /\ nops < MaxOps
      /\ nops' = nops + 1
      /\ UNCHANGED cow
      /\ r.qp.pages <= MaxPages
      /\ qp' = r.qp
      /\ heap' = IF r.fault = "none" /\ dname \in present(heap)
                 THEN [heap EXCEPT ![valof(heap, dname)] = NoName] ELSE heap
      /\ fault' = r.fault
      /\ last' = [op |-> "del", dname |-> dname, ret |-> NULL, case |-> r.case,
                  gc |-> r.gc]

Compact ==
  /\ fault = "none"
  /\ nops < MaxOps
  /\ nops' = nops + 1
  /\ UNCHANGED cow
  /\ qp_compact(qp).pages <= MaxPages
  /\ qp' = qp_compact(qp)
  /\ last' = [op |-> "compact", dname |-> << >>, ret |-> NULL, case |-> "none",
            gc |-> FALSE]
  /\ UNCHANGED << heap, fault >>

Release ==
  /\ fault = "none"
  /\ nops < MaxOps
  /\ nops' = nops + 1
  /\ UNCHANGED cow
  /\ qp' = qp_release(qp)
  /\ last' = [op |-> "release", dname |-> << >>, ret |-> NULL, case |-> "none",
            gc |-> FALSE]
  /\ UNCHANGED << heap, fault >>

\* a qp_get that compacts the trie on its way
Get_compact(dname) ==
  /\ fault = "none"
  /\ nops < MaxOps
  /\ nops' = nops + 1
  /\ UNCHANGED cow
  /\ qp_compact(qp).pages <= MaxPages
  /\ qp' = qp_compact(qp)
  /\ last' = [op |-> "get", dname |-> dname, ret |-> qp_get(qp, heap, dname),
              case |-> "none", gc |-> FALSE]
  /\ UNCHANGED << heap, fault >>

Get(dname) ==
  /\ fault = "none"
  /\ nops < MaxOps
  /\ nops' = nops + 1
  /\ UNCHANGED cow
  /\ last' = [op |-> "get", dname |-> dname, ret |-> qp_get(qp, heap, dname),
              case |-> "none", gc |-> FALSE]
  /\ UNCHANGED << qp, heap, fault >>

FindLe(dname) ==
  LET r == qp_find_le(qp, heap, dname)
  IN  /\ fault = "none"
      /\ nops < MaxOps
      /\ nops' = nops + 1
      /\ UNCHANGED cow
      /\ last' = [op |-> "find_le", dname |-> dname,
                  ret |-> << r.ret, r.val >>, case |-> "none",
                  gc |-> FALSE]
      /\ fault' = r.fault
      /\ UNCHANGED << qp, heap >>

Foreach ==
  /\ fault = "none"
  /\ nops < MaxOps
  /\ nops' = nops + 1
  /\ UNCHANGED cow
  /\ last' = [op |-> "foreach", dname |-> << >>, ret |-> qp_foreach(qp),
              case |-> "none", gc |-> FALSE]
  /\ UNCHANGED << qp, heap, fault >>

Count ==
  /\ fault = "none"
  /\ nops < MaxOps
  /\ nops' = nops + 1
  /\ UNCHANGED cow
  /\ last' = [op |-> "count", dname |-> << >>, ret |-> qp_count(qp),
              case |-> "none", gc |-> FALSE]
  /\ UNCHANGED << qp, heap, fault >>

Next ==
  \/ \E dname \in Names : Add(dname)
  \/ \E dname \in Names : AddExisting(dname)
  \/ \E dname \in Names : Del(dname)
  \/ Compact
  \/ Release
  \/ \E dname \in Names : Get(dname)
  \/ \E dname \in Names : FindLe(dname)
  \/ Foreach
  \/ Count

Spec == Init /\ [][Next]_vars

\* ------------------------------------------------------------------------
\* Copy-on-write transactions
\* ------------------------------------------------------------------------

\* cow_start(): a new trie record with copies of the page-table arrays,
\* keep = used on every page, a garbage counter of its own, and the
\* allocator reset to a fresh page
cow_start(q) ==
  alloc_reset([q EXCEPT
                 !.usage = [p \in DOMAIN q.usage |->
                              [q.usage[p] EXCEPT !.keep = q.usage[p].used]],
                 !.garbage = 0])

\* cow_finish(): clear the keep counters, collect, release
cow_finish(q) ==
  qp_release(qp_compact(
    [q EXCEPT !.usage = [p \in DOMAIN q.usage |->
                           [q.usage[p] EXCEPT !.keep = 0]]]))

\* the pages of the old trie that are still the memory of pages of the
\* new trie: those shared at cow_start that the new trie has not freed
stillshared(shared, new) == {p \in shared : new.base[p] # NULLPAGE}

\* the old trie after the writer worked on the new one: its record and
\* its page table are its own, the memory of a shared page is the same
sync(old, new, shared) ==
  [old EXCEPT !.base = [p \in DOMAIN old.base |->
                          IF p \in shared THEN new.base[p] ELSE old.base[p]]]

\* the values and names of the new trie
cowlive(h, c) == live(h) \ c.dead

cowpresent(h, c) == {h[v] : v \in cowlive(h, c)}

RECURSIVE get_wild(_, _, _, _)
\* does the descent of qp_get read through a pointer into a page that the
\* trie's table does not hold, or read a node that was never written?
get_wild(q, n, key, len) ==
  IF n # ROOT /\ (wild(q, n) \/ refptr(q, n) = JunkNode) THEN TRUE
  ELSE IF isbranch(deref(q, n))
  THEN LET bit == twigbit(deref(q, n), key, len)
       IN  IF ~ hastwig(deref(q, n), bit) THEN FALSE
           ELSE get_wild(q, twig(deref(q, n), twigpos(deref(q, n), bit)),
                         key, len)
  ELSE FALSE

qp_get_wild(q, dname) ==
  get_wild(q, ROOT, dname_to_key(dname), keylen(dname_to_key(dname)))

\* the assertion of cow_start() with the trie's transaction left noted
\* as idle
cow_start_assert_idle(c) == TRUE

\* the assertion of cow_start(): no transaction is open on the trie
cow_start_assert(c) == ~ c.open

\* the assertion of cow_finish(): a transaction is open on the trie
cow_finish_assert(c) == c.open

\* cow_start(): a nested call fails the assertion, any other opens the
\* transaction on a copy of the published trie
CowStart ==
  /\ fault = "none"
  /\ nops < MaxOps
  /\ nops' = nops + 1
  /\ last' = [op |-> "cow_start", dname |-> << >>, ret |-> NULL,
              case |-> "none", gc |-> FALSE]
  /\ \/ /\ cow_start_assert(cow)
        /\ cow_start(qp).pages <= MaxPages
        /\ cow' = [open |-> TRUE,
                   new |-> cow_start(qp),
                   snap |-> [d \in Names |-> qp_get(qp, heap, d)],
                   shared |-> {p \in DOMAIN qp.base : qp.base[p] # NULLPAGE},
                   dead |-> {}]
        /\ UNCHANGED << qp, heap, fault >>
     \/ /\ ~ cow_start_assert(cow)
        /\ fault' = "assert"
        /\ UNCHANGED << qp, heap, cow >>

\* qp_add() on the new trie
CowAdd(dname) ==
  LET e == region_alloc(heap)
      h == [heap EXCEPT ![e] = dname]
      r == qp_add(cow.new, h, e, e)
      shared == stillshared(cow.shared, r.qp)
  IN  /\ fault = "none"
      /\ nops < MaxOps
      /\ nops' = nops + 1
      /\ cow.open
      /\ dname \notin cowpresent(heap, cow)
      /\ r.qp.pages <= MaxPages
      /\ cow' = [cow EXCEPT !.new = r.qp, !.shared = shared]
      /\ qp' = sync(qp, r.qp, shared)
      /\ heap' = h
      /\ fault' = r.fault
      /\ last' = [op |-> "cow_add", dname |-> dname, ret |-> r.pn,
                  case |-> r.case, gc |-> r.gc]

\* qp_del() on the new trie; the values it deleted are recycled when the
\* transaction is finished
CowDel(dname) ==
  LET h == [v \in Vals |-> IF v \in cow.dead THEN NoName ELSE heap[v]]
      r == qp_del(cow.new, h, dname)
      shared == stillshared(cow.shared, r.qp)
  IN  /\ fault = "none"
      /\ nops < MaxOps
      /\ nops' = nops + 1
      /\ cow.open
      /\ r.qp.pages <= MaxPages
      /\ cow' = [cow EXCEPT
                   !.new = r.qp, !.shared = shared,
                   !.dead = IF r.fault = "none" /\ dname \in present(h)
                            THEN @ \cup {valof(h, dname)} ELSE @]
      /\ qp' = sync(qp, r.qp, shared)
      /\ fault' = r.fault
      /\ last' = [op |-> "cow_del", dname |-> dname, ret |-> NULL,
                  case |-> r.case, gc |-> r.gc]
      /\ UNCHANGED heap

\* qp_get() by a reader of the old trie while the transaction is open; a
\* read through a pointer the old trie does not hold is undefined: the
\* reader faults or gets whatever is there
CowGetOld(dname) ==
  /\ fault = "none"
  /\ nops < MaxOps
  /\ nops' = nops + 1
  /\ cow.open
  /\ \/ /\ ~ qp_get_wild(qp, dname)
        /\ last' = [op |-> "get_old", dname |-> dname,
                    ret |-> qp_get(qp, heap, dname),
                    case |-> "none", gc |-> FALSE]
        /\ fault' = fault
     \/ /\ qp_get_wild(qp, dname)
        /\ \E ret \in Vals \cup {NULL} :
             last' = [op |-> "get_old", dname |-> dname, ret |-> ret,
                      case |-> "wild", gc |-> FALSE]
        /\ fault' \in {"none", "segv"}
  /\ UNCHANGED << qp, heap, cow >>

\* cow_finish(): without a transaction the call fails the assertion;
\* otherwise the new trie is published and the deleted values recycled
CowFinish ==
  /\ fault = "none"
  /\ nops < MaxOps
  /\ nops' = nops + 1
  /\ last' = [op |-> "cow_finish", dname |-> << >>, ret |-> NULL,
              case |-> "none", gc |-> FALSE]
  /\ \/ /\ cow_finish_assert(cow)
        /\ cow_finish(cow.new).pages <= MaxPages
        /\ qp' = cow_finish(cow.new)
        /\ heap' = [v \in Vals |-> IF v \in cow.dead THEN NoName
                                                    ELSE heap[v]]
        /\ cow' = NoCow
        /\ UNCHANGED fault
     \/ /\ ~ cow_finish_assert(cow)
        /\ fault' = "assert"
        /\ UNCHANGED << qp, heap, cow >>

\* a writer that fills the trie, then works in a transaction, while
\* readers read the published trie
NextCow ==
  \/ \E dname \in Names : ~ cow.open /\ Add(dname)
  \/ CowStart
  \/ \E dname \in Names : CowAdd(dname)
  \/ \E dname \in Names : CowDel(dname)
  \/ \E dname \in Names : CowGetOld(dname)
  \/ CowFinish
  \/ \E dname \in Names : ~ cow.open /\ Get(dname)

SpecCow == Init /\ [][NextCow]_vars



\* ------------------------------------------------------------------------
\* What the caller expects, from the names it holds
\* ------------------------------------------------------------------------

\* the program has not been ended by a failed assertion or a fault
running == fault = "none"

\* the names held that sort before / after a name
before(h, dname) == {x \in present(h) : dname_compare(x, dname) < 0}

after(h, dname) == {x \in present(h) : dname_compare(x, dname) > 0}

\* the largest / smallest name of a non-empty set of names
largest(S) == CHOOSE x \in S : \A y \in S : dname_compare(y, x) <= 0

smallest(S) == CHOOSE x \in S : \A y \in S : dname_compare(x, y) <= 0

\* the value of the nearest name held before / after a name, or NULL
prevval(h, dname) ==
  IF before(h, dname) = {} THEN NULL ELSE valof(h, largest(before(h, dname)))

nextval(h, dname) ==
  IF after(h, dname) = {} THEN NULL ELSE valof(h, smallest(after(h, dname)))

\* a sequence of values lists every value held exactly once, in strictly
\* ascending order of the names
ascending(h, s) ==
  /\ Len(s) = Cardinality(live(h))
  /\ {s[i] : i \in 1 .. Len(s)} = live(h)
  /\ \A i \in 1 .. Len(s) - 1 : dname_compare(h[s[i]], h[s[i + 1]]) < 0

\* ------------------------------------------------------------------------
\* The order of keys
\* ------------------------------------------------------------------------

\* names of at most this many bytes of label data are converted
MaxNameBytes == 3

\* the bytes of those names: one that is escaped below the letters, one
\* that is escaped between the digits and the letters, and a letter
KeyBytes == {0, 58, 97}

\* the bytes of a name normalised to lower case
LowerBytes == (0 .. 255) \ (65 .. 90)

\* the labels of n bytes
KeyLabels(n) == [1 .. n -> KeyBytes]

RECURSIVE NamesUpTo(_)
\* the names of at most n bytes of label data
NamesUpTo(n) ==
  { << >> } \cup
  UNION { { << label >> \o rest : label \in KeyLabels(k),
                                  rest \in NamesUpTo(n - k) } : k \in 1 .. n }

KeyNames == NamesUpTo(MaxNameBytes)

RECURSIVE key_compare(_, _, _)
\* the lexicographic order of two keys, compared from element i (counted
\* from 1) on: negative, zero or positive
key_compare(left, right, i) ==
  IF i > Len(left) \/ i > Len(right) THEN Len(left) - Len(right)
  ELSE IF left[i] # right[i] THEN left[i] - right[i]
  ELSE key_compare(left, right, i + 1)

\* dname_to_key() of two names
KeyOrder(left, right) ==
  /\ last' = [op |-> "key", dname |-> left, ret |-> right,
              case |-> << dname_to_key(left), dname_to_key(right) >>,
              gc |-> FALSE]
  /\ UNCHANGED << qp, heap, fault, nops, cow >>

\* two names of a few labels; the conversions are made once, from the
\* state after construction
KeyOrderNames ==
  /\ last.op = "init"
  /\ \E left \in KeyNames : \E right \in KeyNames : KeyOrder(left, right)

\* two names of one label of one byte, over every byte value
KeyOrderBytes ==
  /\ last.op = "init"
  /\ \E left \in LowerBytes : \E right \in LowerBytes :
       KeyOrder(<< << left >> >>, << << right >> >>)

NextKey ==
  \/ KeyOrderNames
  \/ KeyOrderBytes

SpecKey == Init /\ [][NextKey]_vars

\* ------------------------------------------------------------------------
\* The length of keys: dname_to_key() step by step over a name in wire
\* format of any valid shape.  The frame of the call is kept in `last`:
\* wire is the wire length of the part of the name read so far, the root
\* label included, c the bytes read of the label at hand (0 between
\* labels), off the variable off, top the highest index of key[] written
\* (-1 when none) and done whether the call has returned off.
\* ------------------------------------------------------------------------

\* sizeof(qp_key)
KeySize == 512

\* a limit on the length of a name that is a few bytes more than half the
\* elements of a key
MAXDOMAINLEN_more == KeySize \div 2 + 7

\* a domain name can be up to 255 bytes
MAXDOMAINLEN == 255

\* a label can be up to 63 bytes
MAXLABELLEN == 63

\* does a byte map to two shifts?
escaped(byte) == byte_to_bits[byte + 1] \div 256 # 0

\* the kinds of bytes there are: escaped ones and plain ones
ByteKinds == {escaped(byte) : byte \in 0 .. 255}

\* size_t off = 0
KeyBegin ==
  /\ last.op = "init"
  /\ last' = [op |-> "dname_to_key", wire |-> 1, c |-> 0, off |-> 0,
              top |-> -1, done |-> FALSE]
  /\ UNCHANGED << qp, heap, fault, nops, cow >>

\* one round of the inner loop, for the next byte of a label, which is
\* the first one of a new label when c = 0 (the label's length byte
\* counts in the wire length); the assertion fails when off is outside
\* the key
KeyByte(esc) ==
  /\ last.op = "dname_to_key"
  /\ ~ last.done
  /\ fault = "none"
  /\ last.c < MAXLABELLEN
  /\ last.wire + (IF last.c = 0 THEN 2 ELSE 1) <= MAXDOMAINLEN
  /\ IF last.off < KeySize
     THEN /\ last' = [last EXCEPT
                        !.wire = @ + (IF last.c = 0 THEN 2 ELSE 1),
                        !.c = @ + 1,
                        !.off = @ + (IF esc THEN 2 ELSE 1),
                        !.top = last.off + (IF esc THEN 1 ELSE 0)]
          /\ fault' = fault
     ELSE /\ last' = last
          /\ fault' = "assert"
  /\ UNCHANGED << qp, heap, nops, cow >>

\* key[off++] = SHIFT_NOBYTE at the end of a label
KeyLabelEnd ==
  /\ last.op = "dname_to_key"
  /\ ~ last.done
  /\ fault = "none"
  /\ last.c > 0
  /\ last' = [last EXCEPT !.c = 0, !.off = @ + 1, !.top = last.off]
  /\ UNCHANGED << qp, heap, fault, nops, cow >>

\* key[off] = SHIFT_NOBYTE; return(off)
KeyEnd ==
  /\ last.op = "dname_to_key"
  /\ ~ last.done
  /\ fault = "none"
  /\ last.c = 0
  /\ last' = [last EXCEPT !.top = last.off, !.done = TRUE]
  /\ UNCHANGED << qp, heap, fault, nops, cow >>

NextLen ==
  \/ KeyBegin
  \/ \E esc \in ByteKinds : KeyByte(esc)
  \/ KeyLabelEnd
  \/ KeyEnd

SpecLen == Init /\ [][NextLen]_vars

\* ------------------------------------------------------------------------
\* The keys of names that are not normalised to lower case
\* ------------------------------------------------------------------------

\* the bytes of those names: a letter in both cases and the byte after
\* the upper case letters, which is escaped
FoldBytes == {65, 91, 97}

RECURSIVE FoldNamesUpTo(_)
\* the names of at most n bytes of label data
FoldNamesUpTo(n) ==
  { << >> } \cup
  UNION { { << label >> \o rest : label \in [1 .. k -> FoldBytes],
                                  rest \in FoldNamesUpTo(n - k) } : k \in 1 .. n }

FoldNames == FoldNamesUpTo(MaxNameBytes)

\* two names of a few labels, in either case
KeyFoldNames ==
  /\ last.op = "init"
  /\ \E left \in FoldNames : \E right \in FoldNames : KeyOrder(left, right)

\* two names of one label of one byte, over every byte value
KeyFoldBytes ==
  /\ last.op = "init"
  /\ \E left \in 0 .. 255 : \E right \in 0 .. 255 :
       KeyOrder(<< << left >> >>, << << right >> >>)

NextFold ==
  \/ KeyFoldNames
  \/ KeyFoldBytes

SpecFold == Init /\ [][NextFold]_vars

\* ------------------------------------------------------------------------
\* The structure of the trie, as qp_check() of the test suite walks it
\* ------------------------------------------------------------------------

\* the twigs of a branch
twigsof(q, n) == {refptr(q, twig(n, pos)) : pos \in 0 .. twigmax(n) - 1}

RECURSIVE reach(_, _)
\* the nodes qp_check_node() visits from the node n on
reach(q, n) ==
  {n} \cup (IF isbranch(n) THEN UNION {reach(q, t) : t \in twigsof(q, n)}
                           ELSE {})

\* the branches and the leaves of a trie that is not empty
branches(q) == {n \in reach(q, q.root) : isbranch(n)}

leafnodes(q) == {n \in reach(q, q.root) : ~ isbranch(n)}

RECURSIVE reachrefs(_, _)
\* the pointers to the nodes reached from the node at p on: ROOT or twig
\* references
reachrefs(q, p) ==
  {p} \cup (IF isbranch(deref(q, p))
            THEN UNION {reachrefs(q, twig(deref(q, p), pos)) :
                          pos \in 0 .. twigmax(deref(q, p)) - 1}
            ELSE {})

\* where the branches of a trie are
branchrefs(q) == {p \in reachrefs(q, ROOT) : isbranch(deref(q, p))}

\* the leaves below a node, the node itself included
leavesbelow(q, n) == {l \in reach(q, n) : ~ isbranch(l)}

\* the twig slots a branch refers to
slots(n) == {twig(n, pos) : pos \in 0 .. twigmax(n) - 1}

RECURSIVE sumusage(_, _)
\* the live twigs of a set of pages
sumusage(q, S) ==
  IF S = {} THEN 0
  ELSE LET p == CHOOSE x \in S : TRUE
       IN  pageusage(q, p) + sumusage(q, S \ {p})

RECURSIVE sumtwigs(_, _)
\* the number of twigs of the branches at a set of places
sumtwigs(q, S) ==
  IF S = {} THEN 0
  ELSE LET p == CHOOSE x \in S : TRUE
       IN  twigmax(deref(q, p)) + sumtwigs(q, S \ {p})

RECURSIVE nodeat(_, _, _)
\* the node reached from the node n by the twig positions of a path
nodeat(q, n, path) ==
  IF path = << >> THEN n
  ELSE nodeat(q, refptr(q, twig(n, Head(path))), Tail(path))

RECURSIVE branchpaths(_, _, _)
RECURSIVE kidpaths(_, _, _, _)
\* the paths of the branches below the twigs of n from position pos on,
\* in the order compactify() returns from them
kidpaths(q, n, path, pos) ==
  IF pos >= twigmax(n) THEN << >>
  ELSE branchpaths(q, refptr(q, twig(n, pos)), Append(path, pos))
       \o kidpaths(q, n, path, pos + 1)

\* the paths of the branches at and below the node n, children first
branchpaths(q, n, path) ==
  IF isbranch(n) THEN kidpaths(q, n, path, 0) \o << path >> ELSE << >>

RECURSIVE sumover(_, _)
\* the sum of a function of numbers over a set of its arguments
sumover(f, S) ==
  IF S = {} THEN 0
  ELSE LET x == CHOOSE y \in S : TRUE
       IN  f[x] + sumover(f, S \ {x})

RECURSIVE qp_check_node(_, _, _, _)
\* the assertions of qp_check_node() on the node n and below it; the
\* assertions on the prev / next links of the values are those of
\* ascending()
qp_check_node(q, h, n, min_off) ==
  IF isbranch(n)
  THEN /\ min_off <= keyoff(n)
       /\ twigmax(n) >= 2
       /\ twigmax(n) <= SHIFT_OFFSET - SHIFT_NOBYTE
       /\ \A t \in twigsof(q, n) : qp_check_node(q, h, t, keyoff(n) + 1)
  ELSE /\ leafval(n) # NULL
       /\ leafval(n) \in Vals
       /\ h[leafval(n)] = leafname(h, n)

qp_check(q, h) ==
  IF q.leaves = 0
  THEN node64(q.root) = node64(ZeroNode) /\ node32(q.root) = 0
  ELSE /\ qp_check_node(q, h, q.root, 0)
       /\ Len(qp_foreach(q)) = q.leaves
       /\ ascending(h, qp_foreach(q))

\* ------------------------------------------------------------------------
\* Claims
\* ------------------------------------------------------------------------

\* C1: after any sequence of qp_add (of names not in the trie), qp_del,
\* qp_compact and qp_release calls that the program got through, qp_get
\* of a name returns the value given to qp_add for it if the name was
\* added and not deleted since, and NULL for every other name.
C1_GetReturnsAdded ==
  running =>
    /\ \A dname \in Names : qp_get(qp, heap, dname) = valof(heap, dname)
    /\ last.op = "get" => last.ret = valof(heap, last.dname)

\* a qp_get that found a name in a trie with branches and garbage
C1_Witness ==
  /\ running
  /\ last.op = "get"
  /\ last.ret # NULL
  /\ last.ret = valof(heap, last.dname)
  /\ isbranch(qp.root)
  /\ qp.garbage > 0
  /\ \E dname \in Names : dname \notin present(heap)

\* C2: qp_foreach calls the visitor exactly once for every value whose
\* name was added and not deleted, for no other value, in strictly
\* ascending order of the names under dname_compare.
C2_ForeachAscending ==
  running =>
    /\ ascending(heap, qp_foreach(qp))
    /\ last.op = "foreach" => last.ret = qp_foreach(qp)

\* a qp_foreach over a trie with a branch below the root branch
C2_Witness ==
  /\ running
  /\ last.op = "foreach"
  /\ Len(last.ret) >= 3
  /\ ascending(heap, last.ret)
  /\ isbranch(qp.root)
  /\ \E pos \in 0 .. twigmax(qp.root) - 1 :
       isbranch(refptr(qp, twig(qp.root, pos)))

\* C3: qp_find_le(n) returns 1 with the value of n iff n is present;
\* otherwise it returns 0 with the value of the largest present name
\* less than n, or 0 with NULL if no present name is less than n.
C3_FindLe ==
  [](running =>
       /\ \A dname \in Names :
            LET r == qp_find_le(qp, heap, dname)
            IN  /\ r.fault = "none"
                /\ r.ret = 1 <=> dname \in present(heap)
                /\ dname \in present(heap) => r.val = valof(heap, dname)
                /\ dname \notin present(heap) =>
                     r.ret = 0 /\ r.val = prevval(heap, dname)
       /\ last.op = "find_le" =>
            last.ret = IF last.dname \in present(heap)
                       THEN << 1, valof(heap, last.dname) >>
                       ELSE << 0, prevval(heap, last.dname) >>)

\* a qp_find_le of an absent name that found its predecessor
C3_Witness ==
  /\ running
  /\ last.op = "find_le"
  /\ last.dname \notin present(heap)
  /\ last.ret[1] = 0
  /\ last.ret[2] # NULL
  /\ last.ret[2] = prevval(heap, last.dname)
  /\ qp.leaves >= 3

\* C4: for every qp_add of a name not yet present, prev is the value of
\* the largest name before the new name in the trie as it was, next the
\* value of the smallest name after it (NULL if none), in the new-branch
\* case, the grow-branch case, and when the insertion runs the collector.
C4_AddNeighbours ==
  [][ (last'.op = "add" /\ fault' = "none") =>
        /\ last'.ret.prev = prevval(heap, last'.dname)
        /\ last'.ret.next = nextval(heap, last'.dname) ]_vars

\* a qp_add that grew a branch, ran the collector and has both neighbours
C4_Witness ==
  /\ running
  /\ last.op = "add"
  /\ last.case = "growbranch"
  /\ last.gc
  /\ last.ret.prev # NULL
  /\ last.ret.next # NULL

\* C5: qp_count is the number of adds minus the number of dels that
\* removed a present name (it starts at 0, every qp_add of a new name adds
\* one, every qp_del of a present name takes one away), it is the number
\* of leaves reachable from the root, and no other call changes it.
C5_Count ==
  /\ [](running =>
          /\ qp_count(qp) = Cardinality(present(heap))
          /\ qp_count(qp) = Len(qp_foreach(qp))
          /\ last.op = "count" => last.ret = Cardinality(present(heap)))
  /\ [][ fault' = "none" =>
          qp_count(qp') - qp_count(qp) =
            IF last'.op = "add" THEN 1
            ELSE IF last'.op = "del" /\ last'.dname \in present(heap) THEN -1
            ELSE 0 ]_vars

\* a qp_count of a trie that names were added to and deleted from (the
\* value of a deleted name is free below a value that is held)
C5_Witness ==
  /\ running
  /\ last.op = "count"
  /\ last.ret >= 2
  /\ last.ret = qp.leaves
  /\ \E v \in Vals \ live(heap) : \E w \in live(heap) : v < w

\* C6: qp_del of a present name removes exactly that name: afterwards
\* qp_get of it returns NULL and qp_get of every other name returns what
\* it returned before.
C6_DelRemovesOnly ==
  [][ (last'.op = "del" /\ last'.dname \in present(heap) /\ fault' = "none") =>
        \A dname \in Names :
          qp_get(qp', heap, dname) =
            IF dname = last'.dname THEN NULL ELSE qp_get(qp, heap, dname) ]_vars

\* a qp_del that shrank a branch and left other names behind
C6_Witness ==
  /\ running
  /\ last.op = "del"
  /\ last.case = "shrink"
  /\ qp.leaves >= 2
  /\ qp_get(qp, heap, last.dname) = NULL

\* C7: copy-on-write isolation: while a transaction is open, qp_get on
\* the old trie gives for every name what it gave before cow_start,
\* whatever qp_add and qp_del calls were made on the new trie; after
\* cow_finish, qp_get on the published trie gives the contents the
\* transaction left.
C7_CowIsolation ==
  /\ (running /\ cow.open) =>
       \A dname \in Names :
         /\ ~ qp_get_wild(qp, dname)
         /\ qp_get(qp, heap, dname) = cow.snap[dname]
  /\ (running /\ last.op = "cow_finish") =>
       \A dname \in Names : qp_get(qp, heap, dname) = valof(heap, dname)

\* C8: qp_del of any name on an empty trie is a no-op: it completes
\* without fault and leaves the trie as it was.
C8_DelOnEmpty ==
  [][ (last'.op = "del" /\ qp.leaves = 0) =>
        fault' = "none" /\ qp' = qp ]_vars

\* C9: qp_del of a name that is absent from a non-empty trie returns
\* normally and leaves the whole trie state unchanged.
C9_DelAbsent ==
  [][ (last'.op = "del" /\ last'.dname \notin present(heap) /\ qp.leaves > 0) =>
        /\ fault' = "none"
        /\ qp' = qp
        /\ heap' = heap
        /\ last'.case \in {"notwig", "mismatch"}
        /\ ~ last'.gc ]_vars

\* a qp_del that reached the leaf of another name
C9_Witness ==
  /\ running
  /\ last.op = "del"
  /\ last.case = "mismatch"
  /\ last.dname \notin present(heap)
  /\ qp.leaves >= 2

\* C10: qp_add of a name whose key is already present reaches the
\* duplicate-key assertion before any state has been modified; with
\* assertions disabled it returns (NULL, NULL).
C10_AddExisting ==
  [][ last'.op = "addexisting" =>
        /\ last'.case = "existing"
        /\ fault' \in {"assert", "none"}
        /\ qp' = qp
        /\ last'.ret = NoPN ]_vars

\* a qp_add of a name that is in the trie, stopped by the assertion
C10_Witness ==
  /\ last.op = "addexisting"
  /\ last.case = "existing"
  /\ fault = "assert"
  /\ isbranch(qp.root)

\* C11: qp_compact preserves the logical trie: in every reachable state,
\* after qp_compact and after a second qp_compact the values qp_foreach
\* visits, the result of qp_get for every name and the leaf count are what
\* they were, and the assertions of qp_check hold.
C11_CompactPreserves ==
  [](running =>
       LET c1 == qp_compact(qp)
           c2 == qp_compact(c1)
           f0 == qp_foreach(qp)
       IN  /\ qp_foreach(c1) = f0
           /\ qp_foreach(c2) = f0
           /\ qp_count(c1) = qp_count(qp)
           /\ qp_count(c2) = qp_count(qp)
           /\ \A dname \in Names :
                LET val == qp_get(qp, heap, dname)
                IN  /\ qp_get(c1, heap, dname) = val
                    /\ qp_get(c2, heap, dname) = val
           /\ qp_check(c1, heap)
           /\ qp_check(c2, heap))

\* a qp_compact that moved the twigs of the root branch to the fresh page
\* and left their old place behind as garbage
C11_Witness ==
  /\ running
  /\ last.op = "compact"
  /\ qp.garbage > 0
  /\ qp.leaves >= 3
  /\ isbranch(qp.root)
  /\ refpage(twigref(qp.root)) = qp.bump
  /\ qp_check(qp, heap)

\* C12 as claimed: after a call of qp_compact on an idle trie the garbage
\* counter is 0.
C12_CompactGarbageZero ==
  [][ (last'.op = "compact" /\ fault' = "none") => qp'.garbage = 0 ]_vars

\* C12 as amended: the garbage counter is the total of the free counters
\* of the pages; a call of qp_compact never lowers it, and raises it
\* exactly when it moved twigs to the fresh page.
C12_CompactGarbage ==
  /\ [](running => qp.garbage = sumfree(qp, 0 .. qp.pages - 1))
  /\ [][ (last'.op = "compact" /\ fault' = "none") =>
           /\ qp'.garbage >= qp.garbage
           /\ qp'.garbage = qp.garbage <=> qp'.usage[qp'.bump].used = 0 ]_vars

\* a qp_compact of a trie with garbage that moved twigs and so left more
C12_Witness ==
  /\ running
  /\ last.op = "compact"
  /\ qp.usage[qp.bump].used > 0
  /\ qp.garbage > qp.usage[qp.bump].used
  /\ qp.garbage = sumfree(qp, 0 .. qp.pages - 1)

\* C13: qp_release frees only pages other than the allocation page: in
\* every state reached by qp_add, qp_del, qp_compact and qp_release calls
\* base[bump] is an installed page, so the fast path of alloc never hands
\* out a reference into a page whose base pointer is NULL.
C13_BumpInstalled ==
  running => qp.bump < qp.pages /\ qp.base[qp.bump] # NULLPAGE

\* C14: for two names normalised to lower case, the key of the first is
\* lexicographically less than the key of the second iff the first comes
\* before the second under dname_compare; so a name sorts before its
\* subdomains and a label before a longer label it is a prefix of.
C14_KeyOrder ==
  last.op = "key" =>
    /\ key_compare(last.case[1], last.case[2], 1) < 0
         <=> dname_compare(last.dname, last.ret) < 0
    /\ key_compare(last.case[2], last.case[1], 1) < 0
         <=> dname_compare(last.ret, last.dname) < 0

\* the keys of a name and of a subdomain of it whose added label begins
\* with an escaped byte, in this order
C14_Witness ==
  /\ last.op = "key"
  /\ Len(last.dname) = 1
  /\ Len(last.ret) = 2
  /\ last.ret[2] = last.dname[1]
  /\ byte_to_bits[last.ret[1][1] + 1] \div 256 # 0
  /\ key_compare(last.case[1], last.case[2], 1) < 0
  /\ dname_compare(last.dname, last.ret) < 0

\* C15: the transaction manager is the machine IDLE -> (cow_start) -> OPEN
\* -> (cow_finish) -> IDLE.  A trie has one transaction record, open or
\* not; only a cow_start that returns opens it and only a cow_finish that
\* returns closes it; cow_start while it is open and cow_finish while it
\* is not fail an assertion and change neither trie.
C15_TransactionMachine ==
  [][ /\ (last'.op = "cow_start" /\ cow.open)
         => fault' = "assert" /\ cow' = cow /\ qp' = qp
      /\ (last'.op = "cow_finish" /\ ~ cow.open)
         => fault' = "assert" /\ cow' = cow /\ qp' = qp
      /\ (last'.op = "cow_start" /\ ~ cow.open)
         => fault' = "none" /\ cow'.open /\ qp' = qp
      /\ (last'.op = "cow_finish" /\ cow.open)
         => fault' = "none" /\ ~ cow'.open
      /\ cow'.open # cow.open
         => last'.op = (IF cow.open THEN "cow_finish" ELSE "cow_start")
    ]_vars

\* a cow_start was rejected inside a transaction that had added a name
C15_Witness ==
  /\ fault = "assert"
  /\ last.op = "cow_start"
  /\ cow.open
  /\ cow.new.leaves > qp.leaves

C17_BranchShape ==
  [](running =>
       /\ \A n \in branches(qp) :
            /\ twigmax(n) >= 2
            /\ twigmax(n) <= 47
            /\ n.bmp \subseteq SHIFT_NOBYTE .. SHIFT_OFFSET - 1
            /\ refpage(twigref(n)) < qp.pages
            /\ qp.base[refpage(twigref(n))] # NULLPAGE
            /\ reftwig(twigref(n)) + twigmax(n)
                 <= qp.usage[refpage(twigref(n))].used
            /\ \A b \in n.bmp :
                 \A l \in leavesbelow(qp, refptr(qp, twig(n, twigpos(n, b)))) :
                   /\ leafval(l) \in Vals
                   /\ LET key == dname_to_key(heap[leafval(l)])
                      IN  twigbit(n, key, keylen(key)) = b
       /\ \A n \in branches(qp) : \A m \in branches(qp) :
            n # m => slots(n) \cap slots(m) = {}
       /\ Cardinality(UNION {slots(n) : n \in branches(qp)})
            = sumusage(qp, 0 .. qp.pages - 1))

\* a branch of three twigs below the root, grown by qp_add with the new
\* leaf in the middle
C17_Witness ==
  /\ running
  /\ last.op = "add"
  /\ last.case = "growbranch"
  /\ \E n \in branches(qp) :
       /\ twigmax(n) = 3
       /\ refptr(qp, twig(n, 1)) = newleaf(valof(heap, last.dname),
                                           valof(heap, last.dname))
       /\ n # qp.root

\* C18: on every path from the root the key offsets of the branches
\* strictly increase: a branch that is a twig of a branch has a greater
\* offset than it, whatever qp_add, qp_del and qp_compact calls were made.
C18_OffsetsIncrease ==
  running =>
    \A n \in branches(qp) :
      \A t \in twigsof(qp, n) : isbranch(t) => keyoff(t) > keyoff(n)

\* a qp_del collapsed a branch of two twigs and left a branch below a
\* branch
C18_Witness ==
  /\ running
  /\ last.op = "del"
  /\ last.case = "collapse"
  /\ \E n \in branches(qp) : \E t \in twigsof(qp, n) : isbranch(t)

\* C19: for every branch at key offset k, the keys of the leaves below it
\* are the same in their first k shifts, and a leaf below the twig for
\* shift b has b at position k of its key, NOBYTE if its key ends at or
\* before k.
C19_CommonPrefix ==
  [](running =>
       \A n \in branches(qp) :
         LET k == keyoff(n)
             keyof(l) == dname_to_key(heap[leafval(l)])
             shift(key, i) == IF i < keylen(key) THEN keyat(key, i)
                                                 ELSE SHIFT_NOBYTE
         IN  /\ \A l \in leavesbelow(qp, n) : leafval(l) \in Vals
             /\ \A l \in leavesbelow(qp, n) : \A o \in leavesbelow(qp, n) :
                  \A i \in 0 .. k - 1 : shift(keyof(l), i) = shift(keyof(o), i)
             /\ \A pos \in 0 .. twigmax(n) - 1 :
                  \A l \in leavesbelow(qp, refptr(qp, twig(n, pos))) :
                    /\ shift(keyof(l), k) \in n.bmp
                    /\ twigpos(n, shift(keyof(l), k)) = pos)

\* a branch at an offset past the first label with a leaf whose key ends
\* there
C19_Witness ==
  /\ running
  /\ \E n \in branches(qp) :
       /\ keyoff(n) >= 2
       /\ hastwig(n, SHIFT_NOBYTE)
       /\ \E l \in leavesbelow(qp, n) :
            keylen(dname_to_key(heap[leafval(l)])) <= keyoff(n)

\* C20: when the trie holds leaves, every leaf reached from the root is
\* not tagged as a branch, holds a value pointer that is not NULL, and
\* its stored offset leads from the value to the value's own dname
\* pointer: leafname gives the name the value was added under, which is
\* the name qp_get finds the value by.
C20_LeafValue ==
  (running /\ qp.leaves > 0) =>
    \A l \in leafnodes(qp) :
      /\ ~ isbranch(l)
      /\ leafval(l) # NULL
      /\ leafval(l) \in live(heap)
      /\ node32(l) = 0
      /\ leafname(heap, l) = heap[leafval(l)]
      /\ qp_get(qp, heap, leafname(heap, l)) = leafval(l)

\* several leaves, one of them moved by a collapse of its branch
C20_Witness ==
  /\ running
  /\ qp.leaves >= 3
  /\ last.op = "del"
  /\ last.case = "collapse"
  /\ Cardinality(leafnodes(qp)) = qp.leaves

\* C21: the leaf count is 0 exactly when the root is the node whose 64-bit
\* and 32-bit words are both 0; so qp_del of the only name of a trie of
\* one leaf leaves the root as qp_init made it.
C21_EmptyRoot ==
  running =>
    (qp_count(qp) = 0
       <=> (node64(qp.root) = node64(ZeroNode) /\ node32(qp.root) = 0))

\* qp_del took the only name out of a trie
C21_Witness ==
  /\ running
  /\ last.op = "del"
  /\ last.case = "empty"
  /\ qp_count(qp) = 0
  /\ qp.root = qp_init.root

\* C22: the twig reference of every branch reached from the root names an
\* installed page, and the twigs it names lie below the page's used
\* counter; qp_release, called by the caller or inside qp_add and qp_del,
\* frees no page that holds the twigs of a reachable branch.
C22_VectorsInstalled ==
  [](running =>
       \A p \in branchrefs(qp) :
         LET ref  == twigref(deref(qp, p))
             page == refpage(ref)
         IN  /\ page < qp.pages
             /\ qp.base[page] # NULLPAGE
             /\ reftwig(ref) + twigmax(deref(qp, p)) <= qp.usage[page].used
             /\ qp_release(qp).base[page] = qp.base[page])

\* qp_release ran inside qp_add or qp_del and freed a page other than the
\* allocation page, and the trie has a branch
C22_Witness ==
  /\ running
  /\ last.op \in {"add", "del"}
  /\ last.gc
  /\ \E page \in 0 .. qp.pages - 1 :
       page # qp.bump /\ qp.base[page] = NULLPAGE
  /\ branchrefs(qp) # {}

\* C23: the twigs of each branch reached from the root lie inside one
\* page, and the twigs of two branches at different places of the trie
\* have no node in common, so no twig vector is referenced twice.
C23_VectorsDisjoint ==
  [](running =>
       /\ \A p \in branchrefs(qp) :
            LET n == deref(qp, p)
            IN  /\ reftwig(twigref(n)) + twigmax(n) <= QP_PAGE_SIZE
                /\ \A ref \in slots(n) : refpage(ref) = refpage(twigref(n))
       /\ \A p \in branchrefs(qp) : \A r \in branchrefs(qp) :
            p # r => /\ twigref(deref(qp, p)) # twigref(deref(qp, r))
                     /\ slots(deref(qp, p)) \cap slots(deref(qp, r)) = {})

\* two branches with their twigs next to each other in one page
C23_Witness ==
  /\ running
  /\ \E p \in branchrefs(qp) : \E r \in branchrefs(qp) :
       /\ p # r
       /\ refpage(twigref(deref(qp, p))) = refpage(twigref(deref(qp, r)))
       /\ twigref(deref(qp, r))
            = twigref(deref(qp, p)) + twigmax(deref(qp, p))

\* C24: the live counts (keep + used - free) of all pages add up to the
\* number of twigs of the branches reached from the root, after every
\* qp_add, qp_del, qp_compact and qp_release.
C24_LiveTwigs ==
  [](running =>
       sumusage(qp, 0 .. qp.pages - 1) = sumtwigs(qp, branchrefs(qp)))

\* a qp_del replaced the twigs of a branch by a shorter vector, in a trie
\* whose allocation page is not the first one
C24_Witness ==
  /\ running
  /\ last.op = "del"
  /\ last.case = "shrink"
  /\ sumtwigs(qp, branchrefs(qp)) >= 2
  /\ qp.bump > 0
  /\ qp.garbage > 0

\* C25: the garbage counter is the sum of the free counters of all pages
\* (so it is at most that sum), in every reachable state; qp_release
\* subtracts no more than the counter holds.
C25_GarbageIsFree ==
  running =>
    /\ qp.garbage = sumfree(qp, 0 .. qp.pages - 1)
    /\ qp.garbage >= 0
    /\ qp_release(qp).garbage >= 0
    /\ qp_release(qp).garbage <= qp.garbage

\* qp_release freed a page other than the allocation page and garbage is
\* left in another
C25_Witness ==
  /\ running
  /\ last.op = "release"
  /\ qp.garbage > 0
  /\ \E page \in 0 .. qp.pages - 1 :
       page # qp.bump /\ qp.base[page] = NULLPAGE

\* C26: every page of the table has used <= QP_PAGE_SIZE and
\* free <= used, in every reachable state.
C26_PageCounters ==
  running =>
    \A page \in 0 .. qp.pages - 1 :
      /\ qp.usage[page].used <= QP_PAGE_SIZE
      /\ qp.usage[page].free <= qp.usage[page].used

\* a page that is all garbage and not yet released, beside a page that
\* has no room for two more twigs
C26_Witness ==
  /\ running
  /\ \E page \in 0 .. qp.pages - 1 :
       qp.usage[page].used > 0 /\ qp.usage[page].free = qp.usage[page].used
  /\ \E page \in 0 .. qp.pages - 1 :
       qp.usage[page].used + 2 > QP_PAGE_SIZE

C28_AllocSlow ==
  [](running =>
       \A size \in {0, 2, 3} :
         LET old    == qp.pages
             free   == {p \in 0 .. old - 1 : qp.base[p] = NULLPAGE}
             above  == {p \in free : p >= qp.bump}
             first(S) == CHOOSE p \in S : \A o \in S : p <= o
             slot   == IF above # {} THEN first(above)
                       ELSE IF free # {} THEN first(free) ELSE old
             new    == alloc_slow(qp, size).qp
         IN  /\ new.pages = IF free # {} THEN old ELSE old + old \div 2 + 1
             /\ DOMAIN new.base = 0 .. new.pages - 1
             /\ DOMAIN new.usage = 0 .. new.pages - 1
             /\ alloc_slow(qp, size).ref = slot * QP_PAGE_SIZE
             /\ new.bump = slot
             /\ new.base[slot] # NULLPAGE
             /\ new.usage[slot].used = size
             /\ \A p \in (0 .. old - 1) \ {slot} :
                  new.base[p] = qp.base[p] /\ new.usage[p] = qp.usage[p]
             /\ \A p \in (old .. new.pages - 1) \ {slot} :
                  new.base[p] = NULLPAGE /\ new.usage[p] = ZeroUsage
             /\ new.root = qp.root
             /\ new.leaves = qp.leaves
             /\ new.garbage = qp.garbage)

\* the table has grown to four slots, a slot below bump and a slot above
\* it are free
C28_Witness ==
  /\ running
  /\ qp.pages = 4
  /\ \E p \in 0 .. qp.bump - 1 : qp.base[p] = NULLPAGE
  /\ \E p \in qp.bump + 1 .. qp.pages - 1 : qp.base[p] = NULLPAGE

\* C29: qp_release frees exactly the pages whose live usage is 0: the
\* base slot of each becomes NULL, its free count is taken off the
\* garbage counter and its usage record is zeroed; the base pointer, the
\* contents and the usage record of every page with live usage > 0 stay
\* as they were, and so do the root, the leaf count, the length of the
\* table and bump.
C29_ReleaseFrame ==
  [](running =>
       LET new   == qp_release(qp)
           all   == 0 .. qp.pages - 1
           empty == {p \in all : pageusage(qp, p) = 0}
       IN  /\ new.pages = qp.pages
           /\ DOMAIN new.base = all
           /\ DOMAIN new.usage = all
           /\ \A p \in empty :
                new.base[p] = NULLPAGE /\ new.usage[p] = ZeroUsage
           /\ \A p \in all \ empty :
                new.base[p] = qp.base[p] /\ new.usage[p] = qp.usage[p]
           /\ new.garbage = qp.garbage - sumfree(qp, empty)
           /\ new.root = qp.root
           /\ new.leaves = qp.leaves
           /\ new.bump = qp.bump
           /\ (last.op = "release" => new = qp))

\* a qp_release call freed a page of garbage and kept a page that holds
\* both live twigs and garbage
C29_Witness ==
  /\ running
  /\ last.op = "release"
  /\ \E p \in 0 .. qp.pages - 1 :
       p # qp.bump /\ qp.base[p] = NULLPAGE /\ qp.usage[p] = ZeroUsage
  /\ \E p \in 0 .. qp.pages - 1 :
       /\ qp.base[p] # NULLPAGE
       /\ pageusage(qp, p) > 0
       /\ qp.usage[p].free > 0

\* C30: qp_compact decides each branch after the branches below it, and
\* moves its twigs to a fresh vector, with the old vector landfilled,
\* exactly when at that moment the live usage of the page they are in is
\* below QP_MIN_USAGE or a child branch was moved; so the ancestors of a
\* moved branch are all moved.  The usage at that moment is the usage
\* before the call less the twigs of the branches moved out of the page
\* earlier in that order.
C30_EvacuateRule ==
  [](running =>
       LET pre    == alloc_reset(qp)
           post   == qp_compact(qp)
           order  == branchpaths(pre, pre.root, << >>)
           idx    == 1 .. Len(order)
           old(i) == nodeat(pre, pre.root, order[i])
           page(i) == refpage(twigref(old(i)))
           moved(i) == twigref(nodeat(post, post.root, order[i]))
                         # twigref(old(i))
           size   == [i \in idx |-> twigmax(old(i))]
           child(j, i) == /\ Len(order[j]) = Len(order[i]) + 1
                          /\ SubSeq(order[j], 1, Len(order[i])) = order[i]
           below(j, i) == /\ Len(order[j]) > Len(order[i])
                          /\ SubSeq(order[j], 1, Len(order[i])) = order[i]
           usage(i) == pageusage(pre, page(i))
                         - sumover(size, {j \in 1 .. i - 1 :
                                            moved(j) /\ page(j) = page(i)})
       IN  /\ order = branchpaths(post, post.root, << >>)
           /\ \A i \in idx : \A j \in idx : below(j, i) => j < i
           /\ \A i \in idx :
                moved(i) <=> \/ usage(i) < QP_MIN_USAGE
                             \/ \E j \in idx : child(j, i) /\ moved(j)
           /\ \A i \in idx : \A j \in idx :
                (below(j, i) /\ moved(j)) => moved(i)
           /\ \A p \in 0 .. pre.pages - 1 :
                pre.usage[p].used > 0 =>
                  post.usage[p].free
                    = pre.usage[p].free
                        + sumover(size, {i \in idx : moved(i) /\ page(i) = p})
           /\ sumover([p \in 0 .. post.pages - 1 |->
                         IF p < pre.pages /\ pre.usage[p].used > 0
                         THEN 0 ELSE post.usage[p].used],
                      0 .. post.pages - 1)
                = sumover(size, {i \in idx : moved(i)}))

\* qp_compact on a trie of two levels: a child branch is moved out of a
\* poorly used page, and its parent is moved after it although the
\* parent's own page is well used
C30_Witness ==
  /\ running
  /\ LET pre    == alloc_reset(qp)
         post   == qp_compact(qp)
         order  == branchpaths(pre, pre.root, << >>)
         idx    == 1 .. Len(order)
         old(i) == nodeat(pre, pre.root, order[i])
         moved(i) == twigref(nodeat(post, post.root, order[i]))
                       # twigref(old(i))
     IN  \E i \in idx : \E j \in idx :
           /\ Len(order[j]) = Len(order[i]) + 1
           /\ SubSeq(order[j], 1, Len(order[i])) = order[i]
           /\ moved(j)
           /\ moved(i)
           /\ refpage(twigref(old(i))) # refpage(twigref(old(j)))
           /\ pageusage(pre, refpage(twigref(old(i)))) >= QP_MIN_USAGE
           /\ pageusage(pre, refpage(twigref(old(j)))) < QP_MIN_USAGE

\* C31: qp_compact writes only to the root node and to pages it installs
\* itself: every page that was installed before the call is installed
\* afterwards and holds the same nodes, so every twig vector that existed
\* before the call still has its contents until qp_release frees its page.
C31_CompactKeepsVectors ==
  [](running =>
       LET post == qp_compact(qp)
       IN  /\ post.pages >= qp.pages
           /\ \A page \in 0 .. qp.pages - 1 :
                qp.base[page] # NULLPAGE =>
                  post.base[page] = qp.base[page]
           /\ \A p \in reachrefs(qp, ROOT) \ {ROOT} :
                refptr(post, p) = refptr(qp, p))

\* qp_compact on a trie of two levels moves a child branch and the root:
\* the new root vector holds the moved child, the old one still holds the
\* child as it was
C31_Witness ==
  /\ running
  /\ isbranch(qp.root)
  /\ LET post == qp_compact(qp)
     IN  \E pos \in 0 .. twigmax(qp.root) - 1 :
           /\ isbranch(refptr(qp, twig(qp.root, pos)))
           /\ twigref(post.root) # twigref(qp.root)
           /\ refptr(post, twig(post.root, pos))
                # refptr(qp, twig(qp.root, pos))
           /\ refptr(post, twig(qp.root, pos))
                = refptr(qp, twig(qp.root, pos))

\* the twigs of the branches that the trie old has and the trie new has
\* not, told by bitmap and offset: the size of the twig vector that an
\* operation retired, 0 when it retired none
retired(old, new) ==
  LET bold  == branchrefs(old)
      bnew  == branchrefs(new)
      wold  == [p \in bold |-> node64(deref(old, p))]
      wnew  == [p \in bnew |-> node64(deref(new, p))]
      words == {wold[p] : p \in bold}
      gone  == [w \in words |->
                  LET o == Cardinality({p \in bold : wold[p] = w})
                      n == Cardinality({p \in bnew : wnew[p] = w})
                  IN  IF o > n THEN (o - n) * Cardinality(w.bmp) ELSE 0]
  IN  sumover(gone, words)

\* C32: qp_add and qp_del run the collector exactly when they retire a
\* twig vector (del collapse or shrink, add growbranch) and the garbage
\* counter with that vector added exceeds QP_MAX_GARBAGE.  Then compact
\* and release have run on the finished trie before the call returns: the
\* trie is whole, the leaf count is right and no installed page is left
\* without live twigs.  Otherwise no collection runs: the garbage counter
\* grows by the retired vector only, no page is freed and the allocation
\* page changes only by an allocation of the operation itself.
C32_CollectOnRetire ==
  [][(fault = "none" /\ fault' = "none"
      /\ last'.op \in {"add", "addexisting", "del"}) =>
       LET size   == retired(qp, qp')
           expect == size > 0 /\ qp.garbage + size > QP_MAX_GARBAGE
           all    == 0 .. qp.pages - 1
       IN  /\ size > 0 <=> last'.case \in {"collapse", "shrink", "growbranch"}
           /\ last'.case = "collapse" => size = 2
           /\ last'.gc <=> expect
           /\ qp_count(qp') = Cardinality(present(heap'))
           /\ expect =>
                /\ qp_check(qp', heap')
                /\ qp_release(qp') = qp'
                /\ \A page \in 0 .. qp'.pages - 1 :
                     qp'.base[page] # NULLPAGE => pageusage(qp', page) > 0
           /\ ~ expect =>
                /\ qp'.garbage = qp.garbage + size
                /\ \A page \in all :
                     /\ qp.base[page] # NULLPAGE => qp'.base[page] # NULLPAGE
                     /\ qp'.usage[page].free >= qp.usage[page].free
                /\ \/ qp'.bump = qp.bump
                   \/ /\ qp'.bump \in all => qp.base[qp'.bump] = NULLPAGE
                      /\ qp'.base[qp'.bump] # NULLPAGE
                      /\ qp'.usage[qp'.bump].used > 0]_vars

\* a qp_del that shrank a branch of a trie holding other leaves ran the
\* collector before it returned
C32_Witness ==
  /\ running
  /\ last.op = "del"
  /\ last.case = "shrink"
  /\ last.gc
  /\ qp.leaves >= 2

C34_TwigsInRange ==
  [](running =>
       LET inrange(a) == a.pos >= 0 /\ a.pos < a.max /\ a.has
           e == region_alloc(heap)
       IN  \A dname \in Names :
             LET h == [heap EXCEPT ![e] = dname]
                 k == dname_to_key(dname)
             IN  /\ \A a \in get_twigs(qp, ROOT, k, keylen(k)) : inrange(a)
                 /\ \A a \in qp_del_twigs(qp, heap, dname) : inrange(a)
                 /\ \A a \in qp_find_le_twigs(qp, heap, dname) : inrange(a)
                 /\ dname \notin present(heap) =>
                      \A a \in qp_add_twigs(qp, h, e, e) : inrange(a))

\* a trie of two levels in which the first descent of a qp_add meets a
\* branch without the key's bit, whose twigpos() is the twig count, and a
\* qp_find_le reads the twig before the position of a missing bit
C34_Witness ==
  /\ running
  /\ \E p \in branchrefs(qp) : p # ROOT
  /\ \E dname \in Names \ present(heap) :
       LET k == dname_to_key(dname)
       IN  /\ \E p \in branchrefs(qp) :
                LET bit == twigbit(deref(qp, p), k, keylen(k))
                IN  /\ ~ hastwig(deref(qp, p), bit)
                    /\ twigpos(deref(qp, p), bit) = twigmax(deref(qp, p))
                    /\ access(deref(qp, p), 0)
                         \in add_walk1_twigs(qp, ROOT, k, keylen(k))
                    /\ access(deref(qp, p), twigmax(deref(qp, p)) - 1)
                         \in find_walk2_twigs(qp, ROOT,
                               keydiff(k, dname_to_key(leafname(heap,
                                 deref(qp, first_leaf(qp,
                                   find_walk1(qp, ROOT, k, keylen(k)).n)))),
                                 0, keylen(k)), k, keylen(k))

\* the names whose keys are compared pair by pair: those the caller uses
\* and every name of at most two bytes of label data
ScanNames == Names \cup NamesUpTo(2)

\* for two names with different keys the first index at which the keys
\* differ is at most the length of either key, so a scan from 0 up to
\* that index reads only elements that dname_to_key() wrote
ScanInside ==
  \A left \in ScanNames : \A right \in ScanNames :
    LET newk == dname_to_key(left)
        oldk == dname_to_key(right)
        off  == keydiff(newk, oldk, 0, keylen(newk))
    IN  newk # oldk =>
          /\ off <= keylen(newk)
          /\ off <= keylen(oldk)
          /\ \A i \in 0 .. off : keyat(newk, i) = keyat(oldk, i) <=> i < off
          /\ keyat(oldk, off) # KEY_UNINIT

\* C35: the keys of two different names differ first at an index that is
\* at most the length of the shorter key.  So in every reachable state and
\* for every name the scans of qp_add (against the key of the leaf its
\* first descent reaches) and of qp_find_le (against the key of the first
\* leaf below where its descent stopped) end at an index within the part
\* of the leaf's key that was written, and the offset of every branch is
\* at most the key length of every leaf below it.
C35_DivergeInside ==
  [](running =>
       /\ ScanInside
       /\ \A dname \in Names \ present(heap) :
            LET newk == dname_to_key(dname)
                newl == keylen(newk)
                n1   == add_walk1(qp, ROOT, newk, newl)
                oldk == dname_to_key(leafname(heap, deref(qp, n1)))
                off  == keydiff(newk, oldk, 0, newl)
                w1   == find_walk1(qp, ROOT, newk, newl)
                found == dname_to_key(leafname(heap,
                           deref(qp, first_leaf(qp, w1.n))))
                foff == keydiff(newk, found, 0, newl)
            IN  qp.leaves > 0 =>
                  /\ off <= newl
                  /\ off <= keylen(oldk)
                  /\ keyat(oldk, off) # KEY_UNINIT
                  /\ foff <= newl
                  /\ foff <= keylen(found)
                  /\ keyat(found, foff) # KEY_UNINIT
       /\ \A n \in branches(qp) : \A leaf \in leavesbelow(qp, n) :
            keyoff(n) <= keylen(dname_to_key(leafname(heap, leaf))))

\* a trie of two levels that holds a name whose key ends where the key of
\* an absent name goes on: the scan of a qp_add of the absent name ends
\* at the terminator of the stored key
C35_Witness ==
  /\ running
  /\ \E p \in branchrefs(qp) : p # ROOT
  /\ \E dname \in Names \ present(heap) :
       LET newk == dname_to_key(dname)
           newl == keylen(newk)
           n1   == add_walk1(qp, ROOT, newk, newl)
           oldk == dname_to_key(leafname(heap, deref(qp, n1)))
       IN  /\ keydiff(newk, oldk, 0, newl) = keylen(oldk)
           /\ keylen(oldk) > 0
           /\ keylen(oldk) < newl

\* C36: for every domain name of at most MAXDOMAINLEN bytes in wire format
\* with labels of at most MAXLABELLEN bytes, dname_to_key() writes only
\* elements below index 512, the terminating NOBYTE included, its
\* assertion holds and it returns a length of at most 511.
C36_KeyFits ==
  /\ fault = "none"
  /\ last.op = "dname_to_key" =>
       /\ last.top < KeySize
       /\ last.off <= KeySize - 1
       /\ last.done => last.top = last.off

\* the conversion of a name of 255 bytes made of escaped bytes only, in
\* as few labels as there can be, has returned: the longest key
C36_Witness ==
  /\ last.op = "dname_to_key"
  /\ last.done
  /\ last.wire = MAXDOMAINLEN
  /\ last.off = 2 * (MAXDOMAINLEN - 5) + 4

\* the shifts that may stand in a branch's bitmap: above the tag bit and
\* below the key offset field
TwigShifts == SHIFT_BRANCH + 1 .. SHIFT_OFFSET - 1

\* every entry of the table is one shift, or two with a non-zero high
\* byte, and each is a bitmap shift; so is NOBYTE
TableShifts ==
  /\ SHIFT_NOBYTE \in TwigShifts
  /\ Len(byte_to_bits) = 256
  /\ \A byte \in 0 .. 255 :
       LET bits == byte_to_bits[byte + 1]
       IN  /\ bits % 256 \in TwigShifts
           /\ bits \div 256 < 256
           /\ bits \div 256 # 0 => bits \div 256 \in TwigShifts

\* C37: every shift dname_to_key() emits, the low byte of a table entry,
\* its high byte when that is not zero, and NOBYTE, is in 1 .. 47: never
\* SHIFT_BRANCH and below SHIFT_OFFSET.  So in every reachable state the
\* keys of the names hold only such shifts, the bits qp_add sets and
\* qp_del clears for any name are such shifts, and the bitmap of every
\* branch lies between the tag bit and the offset field.
C37_ShiftRange ==
  [](running =>
       /\ TableShifts
       /\ \A dname \in Names :
            LET key  == dname_to_key(dname)
                len  == keylen(key)
                \* qp_add: the bits of the new and the old key
                n1   == add_walk1(qp, ROOT, key, len)
                oldk == dname_to_key(leafname(heap, deref(qp, n1)))
                off  == keydiff(key, oldk, 0, len)
                \* qp_del: the bit of the leaf in its parent
                w    == del_walk(qp, ROOT, NOPTR, 0, key, len)
            IN  /\ \A i \in 0 .. len : keyat(key, i) \in TwigShifts
                /\ (qp.leaves > 0 /\ dname \notin present(heap)) =>
                     /\ keyat(key, off) \in TwigShifts
                     /\ keyat(oldk, off) \in TwigShifts
                /\ (w.n # NOPTR /\ w.p # NOPTR) => w.bit \in TwigShifts
       /\ \A n \in branches(qp) :
            /\ n.bmp \subseteq TwigShifts
            /\ n.isb
            /\ twigmax(n) = Cardinality(n.bmp))

\* a trie with a branch on the two shifts of an escaped byte and a branch
\* that has the NOBYTE bit
C37_Witness ==
  /\ running
  /\ \E n \in branches(qp) : SHIFT_NOBYTE \in n.bmp
  /\ \E n \in branches(qp) :
       byte_to_bits[42 + 1] % 256 \in n.bmp
  /\ \E dname \in present(heap) :
       \E i \in 0 .. keylen(dname_to_key(dname)) :
         keyat(dname_to_key(dname), i) = byte_to_bits[42 + 1] \div 256

\* a byte with an upper case ASCII letter made lower case
tolower(byte) == IF byte \in 65 .. 90 THEN byte + 32 ELSE byte

\* two names have the same labels but for the case of their letters
samefold(left, right) ==
  /\ Len(left) = Len(right)
  /\ \A l \in 1 .. Len(left) :
       /\ Len(left[l]) = Len(right[l])
       /\ \A c \in 1 .. Len(left[l]) :
            tolower(left[l][c]) = tolower(right[l][c])

\* the entry of every upper case letter is the entry of its lower case
\* letter, a single shift, and no other two bytes share an entry
TableFolds ==
  /\ \A byte \in 65 .. 90 :
       /\ byte_to_bits[byte + 1] = byte_to_bits[byte + 32 + 1]
       /\ byte_to_bits[byte + 1] < 256
  /\ \A a \in 0 .. 255 : \A b \in 0 .. 255 :
       byte_to_bits[a + 1] = byte_to_bits[b + 1] <=> tolower(a) = tolower(b)

\* C38: the table folds case: the entry of each upper case ASCII letter
\* is that of its lower case letter, one shift.  So dname_to_key() gives
\* two names the same key exactly when they differ at most in the case of
\* letters: names that differ in another byte, in the length of a label
\* or in the number of labels get different keys.
C38_CaseFold ==
  /\ TableFolds
  /\ last.op = "key" =>
       (last.case[1] = last.case[2] <=> samefold(last.dname, last.ret))

\* two names of two labels that differ in the case of a letter in each
\* label and have the same key
C38_Witness ==
  /\ last.op = "key"
  /\ Len(last.dname) = 2
  /\ Len(last.ret) = 2
  /\ last.dname[1] # last.ret[1]
  /\ last.dname[2] # last.ret[2]
  /\ last.case[1] = last.case[2]

\* the pages that are installed in old and still in new have counters in
\* new that are not less than in old
counted(old, new) ==
  \A page \in 0 .. old.pages - 1 :
    (/\ page < new.pages
     /\ old.base[page] # NULLPAGE
     /\ new.base[page] # NULLPAGE)
    => /\ new.usage[page].used >= old.usage[page].used
       /\ new.usage[page].free >= old.usage[page].free

\* the pages that are installed in old
installed(old) == {page \in 0 .. old.pages - 1 : old.base[page] # NULLPAGE}

\* C39: while a page stays installed its used and free counters never
\* decrease: no operation lowers a counter of a page that is installed
\* before and after it; alloc() changes only used, of one page, upwards;
\* landfill() changes only free, of one page, upwards; qp_compact() leaves
\* the counters of the pages it keeps alone but for the free space it
\* adds, and qp_release() changes no counter of a page it keeps.
C39_CountersGrow ==
  /\ [][(fault = "none" /\ fault' = "none") => counted(qp, qp')]_vars
  /\ [](running =>
       /\ \A size \in 0 .. QP_PAGE_SIZE - 1 :
            LET new == alloc(qp, size).qp
            IN  /\ counted(qp, new)
                /\ \A page \in installed(qp) :
                     /\ new.usage[page].free = qp.usage[page].free
                     /\ new.usage[page].used # qp.usage[page].used
                          => page = qp.bump /\ new.bump = page
       /\ \A p \in branchrefs(qp) :
            LET n     == deref(qp, p)
                twigs == twigref(n)
                new   == landfill(qp, twigs, twigmax(n))
            IN  /\ counted(qp, new)
                /\ \A page \in installed(qp) :
                     /\ new.usage[page].used = qp.usage[page].used
                     /\ new.usage[page].free # qp.usage[page].free
                          => page = refpage(twigs)
       /\ LET moved == qp_compact(qp)
              freed == qp_release(moved)
          IN  /\ counted(qp, moved)
              /\ \A page \in installed(qp) :
                   moved.usage[page].used = qp.usage[page].used
              /\ \A page \in installed(freed) :
                   freed.usage[page] = moved.usage[page])

\* qp_compact() has kept a page that holds garbage, a branch in it
C39_Witness ==
  /\ fault = "none"
  /\ last.op = "compact"
  /\ \E page \in installed(qp) :
       /\ page # qp.bump
       /\ qp.usage[page].free > 0
       /\ pageusage(qp, page) >= QP_MIN_USAGE
       /\ \E p \in branchrefs(qp) : p # ROOT /\ refpage(p) = page

====
